---- MODULE Spec2Model ----
(***************************************************************************)
(* Model of the address geocoder in hack_best/backend/bd_usage.py:         *)
(* normalize_text, extract_street_name, parse_building_components,         *)
(* find_closest_street, find_closest_building and geocode_address.         *)
(*                                                                         *)
(* Text is a sequence of characters.  A character is a one-token string.   *)
(* The Cyrillic letters of the source are written in a one-to-one Latin    *)
(* transliteration (upper case = first letter capitalised):                *)
(*   а a  б b  в v  г g  д d  е e  ж zh  з z  и i  й j  к k  л l  м m      *)
(*   н n  о o  п p  р r  с s  т t  у u  ф f  х h  ц c  ч ch  ш sh  щ sch   *)
(*   ъ qq  ы y  ь q  э eh  ю yu  я ya                                      *)
(***************************************************************************)
EXTENDS Integers, Sequences, FiniteSets, TLC

(***************************************************************************)
(* Characters and the character classes of Python's re module.             *)
(***************************************************************************)
LowerLetters == <<"a","b","v","g","d","e","zh","z","i","j","k","l","m","n","o","p","r","s","t","u","f","h","c","ch","sh","sch","qq","y","q","eh","yu","ya">>

UpperLetters == <<"A","B","V","G","D","E","Zh","Z","I","J","K","L","M","N","O","P","R","S","T","U","F","H","C","Ch","Sh","Sch","Qq","Y","Q","Eh","Yu","Ya">>

\* str.lower() on one character
LowerChar(c) ==
  IF \E i \in 1..Len(UpperLetters) : UpperLetters[i] = c
  THEN LowerLetters[CHOOSE i \in 1..Len(UpperLetters) : UpperLetters[i] = c]
  ELSE c

\* str.lower()
Lower(s) == [i \in 1..Len(s) |-> LowerChar(s[i])]

\* \d
Digit == {"0","1","2","3","4","5","6","7","8","9"}

\* \s
Space == {" "}

\* \w : letters, digits and the underscore
Word == {LowerLetters[i] : i \in 1..Len(LowerLetters)} \cup {UpperLetters[i] : i \in 1..Len(UpperLetters)} \cup Digit \cup {"_"}

\* [а-я]
CyrLower == {LowerLetters[i] : i \in 1..Len(LowerLetters)}

(***************************************************************************)
(* Regular expressions.  A pattern is a tree of nodes; Match is the        *)
(* backtracking matcher of Python's re: alternatives are tried left to     *)
(* right, greedy repetition takes the longest first, lazy the shortest.    *)
(***************************************************************************)
\* one character of set S
In(S) == [t |-> "ch", s |-> S, neg |-> FALSE, ic |-> FALSE]

\* one character outside set S: [^...]
NotIn(S) == [t |-> "ch", s |-> S, neg |-> TRUE, ic |-> FALSE]

\* the literal character c
Ch(c) == [t |-> "ch", s |-> {c}, neg |-> FALSE, ic |-> FALSE]

\* the literal character c under re.IGNORECASE
ChI(c) == [t |-> "ch", s |-> {LowerChar(c)}, neg |-> FALSE, ic |-> TRUE]

\* "." : any character (the texts hold no newline)
AnyCh == [t |-> "ch", s |-> {}, neg |-> TRUE, ic |-> FALSE]

Cat(xs) == [t |-> "seq", xs |-> xs]

Alt(xs) == [t |-> "alt", xs |-> xs]

\* x* and x*?
Star(x) == [t |-> "star", x |-> x, greedy |-> TRUE]

StarLazy(x) == [t |-> "star", x |-> x, greedy |-> FALSE]

\* x+ and x+?
Plus(x) == Cat(<<x, Star(x)>>)

PlusLazy(x) == Cat(<<x, StarLazy(x)>>)

\* x?
Opt(x) == Alt(<<x, Cat(<<>>)>>)

\* capturing group number k
Grp(k, x) == [t |-> "grp", k |-> k, x |-> x]

\* ^ , $ , \b and (?!x)
Bol == [t |-> "bol"]

Eol == [t |-> "eol"]

WordB == [t |-> "wordb"]

NegAhead(x) == [t |-> "neg", x |-> x]

\* a literal string, and a literal string under re.IGNORECASE
Lit(str) == Cat([i \in 1..Len(str) |-> Ch(str[i])])

LitI(str) == Cat([i \in 1..Len(str) |-> ChI(str[i])])

\* a literal of the pattern source in which "." is the regex wildcard
LitDotI(str) == Cat([i \in 1..Len(str) |-> IF str[i] = "." THEN AnyCh ELSE ChI(str[i])])

MaxGroups == 2

NoCaps == [k \in 1..MaxGroups |-> <<0, 0>>]

NoMatch == [ok |-> FALSE, start |-> 0, end |-> 0, caps |-> NoCaps]

CharOk(c, h) ==
  LET d == IF h.ic THEN LowerChar(c) ELSE c
  IN  IF h.neg THEN d \notin h.s ELSE d \in h.s

IsWordAt(s, i) == i >= 1 /\ i <= Len(s) /\ s[i] \in Word

RECURSIVE Match(_, _, _, _)
\* match the nodes of stack, in order, against s from position pos
Match(stack, pos, caps, s) ==
  IF Len(stack) = 0 THEN [ok |-> TRUE, start |-> 0, end |-> pos, caps |-> caps]
  ELSE
    LET h == Head(stack)
        rest == Tail(stack)
    IN  CASE h.t = "ch" ->
               IF pos <= Len(s) /\ CharOk(s[pos], h)
               THEN Match(rest, pos + 1, caps, s) ELSE NoMatch
          [] h.t = "seq" -> Match(h.xs \o rest, pos, caps, s)
          [] h.t = "alt" ->
               IF Len(h.xs) = 0 THEN NoMatch
               ELSE IF Len(h.xs) = 1 THEN Match(<<h.xs[1]>> \o rest, pos, caps, s)
               ELSE LET half == Len(h.xs) \div 2
                        r == Match(<<Alt(SubSeq(h.xs, 1, half))>> \o rest, pos, caps, s)
                    IN  IF r.ok THEN r
                        ELSE Match(<<Alt(SubSeq(h.xs, half + 1, Len(h.xs)))>> \o rest, pos, caps, s)
          [] h.t = "star" ->
               IF h.greedy
               THEN LET r == Match(<<h.x, h>> \o rest, pos, caps, s)
                    IN  IF r.ok THEN r ELSE Match(rest, pos, caps, s)
               ELSE LET r == Match(rest, pos, caps, s)
                    IN  IF r.ok THEN r ELSE Match(<<h.x, h>> \o rest, pos, caps, s)
          [] h.t = "grp" ->
               Match(<<[t |-> "open", k |-> h.k], h.x, [t |-> "close", k |-> h.k]>> \o rest,
                     pos, caps, s)
          [] h.t = "open" -> Match(rest, pos, [caps EXCEPT ![h.k] = <<pos, 0>>], s)
          [] h.t = "close" -> Match(rest, pos, [caps EXCEPT ![h.k] = <<caps[h.k][1], pos>>], s)
          [] h.t = "bol" -> IF pos = 1 THEN Match(rest, pos, caps, s) ELSE NoMatch
          [] h.t = "eol" -> IF pos = Len(s) + 1 THEN Match(rest, pos, caps, s) ELSE NoMatch
          [] h.t = "wordb" ->
               IF IsWordAt(s, pos - 1) # IsWordAt(s, pos)
               THEN Match(rest, pos, caps, s) ELSE NoMatch
          [] h.t = "neg" ->
               IF Match(<<h.x>>, pos, caps, s).ok THEN NoMatch
               ELSE Match(rest, pos, caps, s)

RECURSIVE SearchFrom(_, _, _)
\* re.search from position pos on: the leftmost match
SearchFrom(re, s, pos) ==
  IF pos > Len(s) + 1 THEN NoMatch
  ELSE LET r == Match(<<re>>, pos, NoCaps, s)
       IN  IF r.ok THEN [r EXCEPT !.start = pos] ELSE SearchFrom(re, s, pos + 1)

\* re.search(re, s)
Search(re, s) == SearchFrom(re, s, 1)

\* match.group(k); a group that took no part in the match is empty
Group(m, k, s) ==
  IF m.caps[k][2] = 0 THEN <<>> ELSE SubSeq(s, m.caps[k][1], m.caps[k][2] - 1)

RECURSIVE SubFrom(_, _, _, _)
\* re.sub(re, repl, s) from position pos on
SubFrom(re, repl, s, pos) ==
  IF pos > Len(s) THEN <<>>
  ELSE LET m == SearchFrom(re, s, pos)
       IN  IF ~m.ok THEN SubSeq(s, pos, Len(s))
           ELSE IF m.end = m.start
                THEN SubSeq(s, pos, m.start - 1) \o repl
                       \o (IF m.start <= Len(s) THEN <<s[m.start]>> ELSE <<>>)
                       \o SubFrom(re, repl, s, m.start + 1)
                ELSE SubSeq(s, pos, m.start - 1) \o repl \o SubFrom(re, repl, s, m.end)

\* re.sub(re, repl, s)
Sub(re, repl, s) == SubFrom(re, repl, s, 1)

RECURSIVE LStrip(_)
LStrip(s) == IF Len(s) > 0 /\ s[1] \in Space THEN LStrip(Tail(s)) ELSE s

RECURSIVE RStrip(_)
RStrip(s) ==
  IF Len(s) > 0 /\ s[Len(s)] \in Space THEN RStrip(SubSeq(s, 1, Len(s) - 1)) ELSE s

\* str.strip()
Strip(s) == LStrip(RStrip(s))

\* needle in hay (substring test)
Contains(hay, needle) ==
  \E i \in 1..(Len(hay) - Len(needle) + 1) : SubSeq(hay, i, i + Len(needle) - 1) = needle

(***************************************************************************)
(* normalize_text                                                          *)
(***************************************************************************)
\* a normalization that does not strip the text at the end
normalize_text_unstripped(text) ==
  IF Len(text) = 0 THEN <<>>
  ELSE LET t1 == Strip(Lower(text))
           t2 == Sub(NotIn(Word \cup Space \cup {"-"}), <<" ">>, t1)
       IN  Sub(Plus(In(Space)), <<" ">>, t2)

normalize_text(text) ==
  IF Len(text) = 0 THEN <<>>
  ELSE LET t1 == Strip(Lower(text))
           t2 == Sub(NotIn(Word \cup Space \cup {"-"}), <<" ">>, t1)
       IN  Strip(Sub(Plus(In(Space)), <<" ">>, t2))

(***************************************************************************)
(* extract_street_name                                                     *)
(***************************************************************************)
FIAS_STREET_TYPES == <<
  <<"a","l","l","e","ya">>, <<"a","l",".">>, <<"b","u","l","q","v","a","r">>, <<"b","-","r">>,
  <<"v","z","v","o","z">>, <<"v","z","v",".">>, <<"v","qq","e","z","d">>, <<"v","z","d",".">>,
  <<"d","o","r","o","g","a">>, <<"d","o","r",".">>, <<"z","a","e","z","d">>, <<"z","z","d",".">>,
  <<"k","i","l","o","m","e","t","r">>, <<"k","m">>, <<"k","o","l","q","c","o">>, <<"k","-","c","o">>,
  <<"k","o","s","a">>, <<"k","o","s","a">>, <<"l","i","n","i","ya">>, <<"l","n",".">>,
  <<"m","a","g","i","s","t","r","a","l","q">>, <<"m","g","s","t","r",".">>, <<"n","a","b","e","r","e","zh","n","a","ya">>, <<"n","a","b",".">>,
  <<"p","e","r","e","e","z","d">>, <<"p","e","r","-","d">>, <<"p","e","r","e","u","l","o","k">>, <<"p","e","r",".">>,
  <<"p","l","o","sch","a","d","k","a">>, <<"p","l","-","k","a">>, <<"p","l","o","sch","a","d","q">>, <<"p","l",".">>,
  <<"p","r","o","e","z","d">>, <<"p","r","-","d">>, <<"p","r","o","s","e","k">>, <<"p","r","-","k">>,
  <<"p","r","o","s","e","k","a">>, <<"p","r","-","k","a">>, <<"p","r","o","s","e","l","o","k">>, <<"p","r","-","l","o","k">>,
  <<"p","r","o","s","p","e","k","t">>, <<"p","r","-","k","t">>, <<"p","r","o","u","l","o","k">>, <<"p","r","o","u","l",".">>,
  <<"r","a","z","qq","e","z","d">>, <<"r","z","d",".">>, <<"r","ya","d","y">>, <<"r","ya","d">>,
  <<"s","k","v","e","r">>, <<"s","k","v","e","r">>, <<"s","p","u","s","k">>, <<"s","-","k">>,
  <<"s","qq","e","z","d">>, <<"s","z","d",".">>, <<"t","r","a","k","t">>, <<"t","r","a","k","t">>,
  <<"t","u","p","i","k">>, <<"t","u","p",".">>, <<"u","l","i","c","a">>, <<"u","l",".">>,
  <<"sh","o","s","s","e">>, <<"sh",".">> >>

\* (?:\s*,|\s*$|\s*\d)
name_end == Alt(<<Cat(<<Star(In(Space)), Ch(",")>>), Cat(<<Star(In(Space)), Eol>>), Cat(<<Star(In(Space)), In(Digit)>>)>>)

\* ^(г\.?\s*)?москва[\s,]*
moscow_prefix == Cat(<<Bol, Opt(Grp(1, Cat(<<ChI("g"), Opt(Ch(".")), Star(In(Space))>>))), LitI(<<"m","o","s","k","v","a">>), Star(In(Space \cup {","}))>>)

\* [\s,]*(г\.?\s*)?москва$
moscow_suffix == Cat(<<Star(In(Space \cup {","})), Opt(Grp(1, Cat(<<ChI("g"), Opt(Ch(".")), Star(In(Space))>>))), LitI(<<"m","o","s","k","v","a">>), Eol>>)

\* (type1|type2|...)\.?\s+([^\d,]+?)(?:\s*,|\s*$|\s*\d)
street_pattern == Cat(<<Grp(1, Alt([i \in 1..Len(FIAS_STREET_TYPES) |-> LitDotI(FIAS_STREET_TYPES[i])])), Opt(Ch(".")), Plus(In(Space)), Grp(2, PlusLazy(NotIn(Digit \cup {","}))), name_end>>)

fallback_patterns == <<
  Cat(<<Bol, Grp(1, PlusLazy(NotIn(Digit \cup {","}))), name_end>>),
  Cat(<<Alt(<<Cat(<<LitI(<<"u","l">>), Opt(Ch("."))>>), LitI(<<"u","l","i","c","a">>)>>), Star(In(Space)), Grp(1, PlusLazy(NotIn(Digit \cup {","}))), name_end>>),
  Cat(<<Grp(1, PlusLazy(NotIn(Digit \cup {","}))), Alt(<<Cat(<<Star(In(Space)), LitI(<<"u","l","i","c","a">>)>>), Cat(<<Star(In(Space)), LitI(<<"u","l">>), Opt(Ch("."))>>)>>)>>) >>

\* \d+\s+год
year_pattern == Cat(<<Plus(In(Digit)), Plus(In(Space)), LitI(<<"g","o","d">>)>>)

\* any(t in street_type.lower() for t in ts)
AnyIn(ts, text) == \E i \in 1..Len(ts) : Contains(text, ts[i])

\* the cascade that maps the matched street type to its canonical word
street_type_normalized(street_type) ==
  LET st == Lower(street_type)
  IN  IF AnyIn(<< <<"p","r">>, <<"p","r","o","s","p","e","k","t">> >>, st) THEN <<"p","r","o","s","p","e","k","t">>
      ELSE IF AnyIn(<< <<"b","-","r">>, <<"b","u","l","q","v","a","r">> >>, st) THEN <<"b","u","l","q","v","a","r">>
      ELSE IF AnyIn(<< <<"n","a","b">>, <<"n","a","b","e","r","e","zh","n","a","ya">> >>, st) THEN <<"n","a","b","e","r","e","zh","n","a","ya">>
      ELSE IF AnyIn(<< <<"sh">>, <<"sh","o","s","s","e">> >>, st) THEN <<"sh","o","s","s","e">>
      ELSE IF AnyIn(<< <<"p","e","r">>, <<"p","e","r","e","u","l","o","k">> >>, st) THEN <<"p","e","r","e","u","l","o","k">>
      ELSE IF AnyIn(<< <<"p","l">>, <<"p","l","o","sch","a","d","q">> >>, st) THEN <<"p","l","o","sch","a","d","q">>
      ELSE <<"u","l","i","c","a">>

\* address.split(',')[0]
BeforeComma(s) ==
  IF \E i \in 1..Len(s) : s[i] = ","
  THEN SubSeq(s, 1, (CHOOSE i \in 1..Len(s) : s[i] = "," /\ \A j \in 1..(i - 1) : s[j] # ",") - 1)
  ELSE s

RECURSIVE FirstFallback(_, _)
\* the first fallback pattern, from number i on, that matches; 0 if none
FirstFallback(address, i) ==
  IF i > Len(fallback_patterns) THEN 0
  ELSE IF Search(fallback_patterns[i], address).ok THEN i
  ELSE FirstFallback(address, i + 1)

extract_street_name(full) ==
  LET a0 == Strip(full)
      a1 == Sub(moscow_prefix, <<>>, a0)
      address == Sub(moscow_suffix, <<>>, a1)
      m == Search(street_pattern, address)
      fb == FirstFallback(address, 1)
  IN  IF m.ok
      THEN street_type_normalized(Group(m, 1, address)) \o <<" ">> \o Strip(Group(m, 2, address))
      ELSE IF fb # 0
      THEN LET street_candidate == Strip(Group(Search(fallback_patterns[fb], address), 1, address))
           IN  IF Search(year_pattern, street_candidate).ok
               THEN <<"u","l","i","c","a"," ">> \o street_candidate
               ELSE street_candidate
      ELSE IF Len(Strip(BeforeComma(address))) > 0 THEN Strip(BeforeComma(address))
      ELSE Strip(address)

(***************************************************************************)
(* parse_building_components                                               *)
(***************************************************************************)
\* (?:\s|$|,)
token_end == Alt(<<In(Space), Eol, Ch(",")>>)

\* ([^\s,]+)(?:\s|$|,)
token1 == Cat(<<Grp(1, Plus(NotIn(Space \cup {","}))), token_end>>)

\* д\.?\s*([^\s,]+)(?:\s|$|,)
full_number_1 == Cat(<<Ch("d"), Opt(Ch(".")), Star(In(Space)), token1>>)

\* ([^\s,]+\s*к\s*\d+)(?:\s|$|,)
full_number_2 == Cat(<<Grp(1, Cat(<<Plus(NotIn(Space \cup {","})), Star(In(Space)), Ch("k"), Star(In(Space)), Plus(In(Digit))>>)), token_end>>)

\* (\d+\s*[а-я]*)\b
full_number_3 == Cat(<<Grp(1, Cat(<<Plus(In(Digit)), Star(In(Space)), Star(In(CyrLower))>>)), WordB>>)

\* д(?:ом)?\.?\s*([^\s,]+)(?:\s|$|,)
house_pattern == Cat(<<Ch("d"), Opt(Lit(<<"o","m">>)), Opt(Ch(".")), Star(In(Space)), token1>>)

\* \b(\d+\s*[а-я]?)\b(?!\s*(?:корп|к\.|стр|строение|влад|вл\.))
house_fallback == Cat(<<WordB, Grp(1, Cat(<<Plus(In(Digit)), Star(In(Space)), Opt(In(CyrLower))>>)), WordB, NegAhead(Cat(<<Star(In(Space)), Alt(<<Lit(<<"k","o","r","p">>), Lit(<<"k",".">>), Lit(<<"s","t","r">>), Lit(<<"s","t","r","o","e","n","i","e">>), Lit(<<"v","l","a","d">>), Lit(<<"v","l",".">>)>>)>>))>>)

\* (?:корп|к)\.?\s*([^\s,]+)(?:\s|$|,)
corps_pattern == Cat(<<Alt(<<Lit(<<"k","o","r","p">>), Ch("k")>>), Opt(Ch(".")), Star(In(Space)), token1>>)

\* (?:стр|строение)\.?\s*([^\s,]+)(?:\s|$|,)
build_pattern == Cat(<<Alt(<<Lit(<<"s","t","r">>), Lit(<<"s","t","r","o","e","n","i","e">>)>>), Opt(Ch(".")), Star(In(Space)), token1>>)

\* (?:вл|владение)\.?\s*([^\s,]+)(?:\s|$|,)
own_pattern == Cat(<<Alt(<<Lit(<<"v","l">>), Lit(<<"v","l","a","d","e","n","i","e">>)>>), Opt(Ch(".")), Star(In(Space)), token1>>)

\* match.group(1).strip() if the pattern is found in the address, else ""
Found(re, address) ==
  LET m == Search(re, address) IN IF m.ok THEN Strip(Group(m, 1, address)) ELSE <<>>

\* s.replace(" ", "")
RemoveSpaces(s) == Sub(Ch(" "), <<>>, s)

\* the parts joined with a space between them
spaced_parts(nomer_doma, nomer_korpusa, stroenie, vladenie) ==
  nomer_doma
    \o (IF Len(nomer_korpusa) > 0 THEN <<" ","k">> \o nomer_korpusa ELSE <<>>)
    \o (IF Len(stroenie) > 0 THEN <<" ","s">> \o stroenie ELSE <<>>)
    \o (IF Len(vladenie) > 0 THEN <<" ","v","l">> \o vladenie ELSE <<>>)

\* "".join(parts), parts being the house number, "к" and the corpus, "с" and
\* the structure, "вл" and the ownership, each if it is not empty
joined_parts(nomer_doma, nomer_korpusa, stroenie, vladenie) ==
  nomer_doma
    \o (IF Len(nomer_korpusa) > 0 THEN <<"k">> \o nomer_korpusa ELSE <<>>)
    \o (IF Len(stroenie) > 0 THEN <<"s">> \o stroenie ELSE <<>>)
    \o (IF Len(vladenie) > 0 THEN <<"v","l">> \o vladenie ELSE <<>>)

parse_building_components(full_address) ==
  LET address == Lower(full_address)
      syroj_nomer ==
        IF Search(full_number_1, address).ok THEN Found(full_number_1, address)
        ELSE IF Search(full_number_2, address).ok THEN Found(full_number_2, address)
        ELSE Found(full_number_3, address)
      nomer_doma ==
        IF Search(house_pattern, address).ok THEN Found(house_pattern, address)
        ELSE Found(house_fallback, address)
      nomer_korpusa == Found(corps_pattern, address)
      stroenie == Found(build_pattern, address)
      vladenie == Found(own_pattern, address)
      parts == joined_parts(nomer_doma, nomer_korpusa, stroenie, vladenie)
  IN  [nomer_doma |-> nomer_doma,
       nomer_korpusa |-> nomer_korpusa,
       stroenie |-> stroenie,
       vladenie |-> vladenie,
       polnyj_nomer_dlya_poiska |->
         IF Len(parts) = 0 /\ Len(syroj_nomer) > 0 THEN RemoveSpaces(syroj_nomer) ELSE parts,
       syroj_nomer |-> syroj_nomer]

(***************************************************************************)
(* Similarity metrics.  A similarity is an integer in units of 1/10000;    *)
(* a score is an integer in units of 1/ScoreScale.                         *)
(***************************************************************************)
Min2(a, b) == IF a < b THEN a ELSE b

Max2(a, b) == IF a > b THEN a ELSE b

RECURSIVE SumSeq(_)
SumSeq(xs) == IF Len(xs) = 0 THEN 0 ELSE Head(xs) + SumSeq(Tail(xs))

RECURSIVE LevRow(_, _, _, _)
\* the next row of the edit-distance table: cur[j + 1] is the distance of
\* the prefix of a that ends in character c to the first j characters of b
LevRow(prev, c, b, cur) ==
  IF Len(cur) > Len(b) THEN cur
  ELSE LET j == Len(cur)
           sub == prev[j] + (IF c = b[j] THEN 0 ELSE 1)
       IN  LevRow(prev, c, b, Append(cur, Min2(Min2(prev[j + 1] + 1, cur[j] + 1), sub)))

RECURSIVE LevRows(_, _, _, _)
LevRows(a, b, i, prev) ==
  IF i > Len(a) THEN prev
  ELSE LevRows(a, b, i + 1, LevRow(prev, a[i], b, <<prev[1] + 1>>))

\* Levenshtein.distance(a, b)
distance(a, b) == LevRows(a, b, 1, [j \in 1..(Len(b) + 1) |-> j - 1])[Len(b) + 1]

\* lev_sim = 1 - (lev_dist / max_len) if max_len > 0 else 0
lev_sim(a, b) ==
  LET max_len == Max2(Len(a), Len(b))
  IN  IF max_len > 0 THEN ((max_len - distance(a, b)) * 10000) \div max_len ELSE 0

RECURSIVE JaroFlags(_, _, _, _, _)
\* the greedy pairing of Jaro: each character of a, in order, takes the
\* first free equal character of b within the window; used = positions
\* taken in b, ms = the paired characters of a in order
JaroFlags(a, b, i, used, ms) ==
  IF i > Len(a) THEN [used |-> used, ms |-> ms]
  ELSE LET bound == Max2(Max2(Len(a), Len(b)) \div 2 - 1, 0)
           win == {j \in Max2(1, i - bound)..Min2(Len(b), i + bound) : j \notin used /\ b[j] = a[i]}
       IN  IF win = {} THEN JaroFlags(a, b, i + 1, used, ms)
           ELSE LET j == CHOOSE x \in win : \A y \in win : x <= y
                IN  JaroFlags(a, b, i + 1, used \cup {j}, Append(ms, a[i]))

\* the number of paired characters m, of transpositions t, and the Jaro
\* similarity (m/|a| + m/|b| + (m-t)/m) / 3 as the fraction num/den
JaroParts(a, b) ==
  LET f == JaroFlags(a, b, 1, {}, <<>>)
      m == Len(f.ms)
      pos2 == [k \in 1..m |-> CHOOSE j \in f.used : Cardinality({x \in f.used : x < j}) = k - 1]
      t == Cardinality({k \in 1..m : f.ms[k] # b[pos2[k]]}) \div 2
  IN  [m |-> m, t |-> t,
       num |-> m * m * Len(b) + m * m * Len(a) + (m - t) * Len(a) * Len(b),
       den |-> 3 * Len(a) * Len(b) * m]

RECURSIVE CommonPrefix(_, _, _)
CommonPrefix(a, b, k) ==
  IF k < 4 /\ k < Len(a) /\ k < Len(b) /\ a[k + 1] = b[k + 1] THEN CommonPrefix(a, b, k + 1) ELSE k

\* Levenshtein.jaro_winkler(a, b): prefix weight 0.1 over at most four
\* characters, applied when the Jaro similarity exceeds 0.7
jaro_winkler(a, b) ==
  IF Len(a) = 0 /\ Len(b) = 0 THEN 10000
  ELSE IF Len(a) = 0 \/ Len(b) = 0 THEN 0
  ELSE LET j == JaroParts(a, b)
       IN  IF j.m = 0 THEN 0
           ELSE LET jaro == (j.num * 10000) \div j.den
                IN  IF 10 * j.num > 7 * j.den
                    THEN jaro + (CommonPrefix(a, b, 0) * (10000 - jaro)) \div 10
                    ELSE jaro

RECURSIVE Split(_, _, _)
\* str.split(): the maximal runs of non-space characters from index i on
Split(s, i, cur) ==
  IF i > Len(s) THEN (IF Len(cur) > 0 THEN <<cur>> ELSE <<>>)
  ELSE IF s[i] \in Space
       THEN (IF Len(cur) > 0 THEN <<cur>> ELSE <<>>) \o Split(s, i + 1, <<>>)
       ELSE Split(s, i + 1, Append(cur, s[i]))

\* ngram_range=(3, 5)
ngram_min == 3

ngram_max == 5

RECURSIVE WordNGrams(_, _)
\* the n-grams of one padded word w for n, n+1, ... ngram_max; a word
\* shorter than n is taken once, whole, and ends the loop over n
WordNGrams(w, n) ==
  IF n > ngram_max THEN <<>>
  ELSE IF Len(w) <= n THEN <<SubSeq(w, 1, Min2(n, Len(w)))>>
  ELSE [o \in 1..(Len(w) - n + 1) |-> SubSeq(w, o, o + n - 1)] \o WordNGrams(w, n + 1)

RECURSIVE DocNGrams(_)
DocNGrams(ws) ==
  IF Len(ws) = 0 THEN <<>>
  ELSE WordNGrams(<<" ">> \o Head(ws) \o <<" ">>, ngram_min) \o DocNGrams(Tail(ws))

\* the analyzer 'char_wb' of TfidfVectorizer on one document
char_wb(text) == DocNGrams(Split(Lower(text), 1, <<>>))

\* IdfSq[n][df] = 1000 * (ln((1 + n) / (1 + df)) + 1)^2, rounded: the
\* squared smoothed inverse document frequency of a term found in df of n
\* documents
IdfSq == <<
  <<1000>>,
  <<1975, 1000>>,
  <<2867, 1658, 1000>>,
  <<3672, 2283, 1496, 1000>>,
  <<4404, 2867, 1975, 1398, 1000>>,
  <<5075, 3413, 2432, 1786, 1332, 1000>>,
  <<5694, 3924, 2867, 2161, 1658, 1285, 1000>>,
  <<6270, 4404, 3279, 2521, 1975, 1566, 1249, 1000>> >>

\* term frequency of n-gram g in the n-gram list gs
Tf(g, gs) == Cardinality({i \in 1..Len(gs) : gs[i] = g})

\* sum over the terms g of tf_x(g) * tf_y(g) * idf(g)^2, docs = the n-gram
\* lists of all fitted documents
Dot(gx, gy, docs) ==
  SumSeq([i \in 1..Len(gx) |->
            Tf(gx[i], gy) * IdfSq[Len(docs)][Cardinality({d \in 1..Len(docs) : Tf(gx[i], docs[d]) > 0})]])

RECURSIVE BSearchSqrt(_, _, _)
BSearchSqrt(n, lo, hi) ==
  IF lo >= hi THEN lo
  ELSE LET mid == (lo + hi + 1) \div 2
       IN  IF mid * mid <= n THEN BSearchSqrt(n, mid, hi) ELSE BSearchSqrt(n, lo, mid - 1)

\* the integer square root
ISqrt(n) == BSearchSqrt(n, 0, 46340)

\* cosine_similarity of the TF-IDF rows of documents x and y fitted over docs
cos_sim(gx, gy, docs) ==
  LET a == Dot(gx, gy, docs)
      nx == ISqrt(Dot(gx, gx, docs) * 10000)
      ny == ISqrt(Dot(gy, gy, docs) * 10000)
  IN  IF a = 0 THEN 0 ELSE Min2(10000, (a * 10000) \div ((nx * ny) \div 10000))

(***************************************************************************)
(* The address table.  A row is [street, number, lat, lon]; the table is   *)
(* the sequence of its rows in storage order.                              *)
(***************************************************************************)
\* LIMIT 3000 and LIMIT 100 of the two SELECT statements
street_limit == 3000

building_limit == 100

Take(xs, n) == SubSeq(xs, 1, Min2(n, Len(xs)))

RECURSIVE Distinct(_, _)
\* the values of xs, without the empty ones, each once, in order of first
\* appearance
Distinct(xs, seen) ==
  IF Len(xs) = 0 THEN <<>>
  ELSE IF Len(Head(xs)) = 0 \/ Head(xs) \in seen THEN Distinct(Tail(xs), seen)
  ELSE <<Head(xs)>> \o Distinct(Tail(xs), seen \cup {Head(xs)})

\* SELECT DISTINCT street FROM addresses
\*   WHERE street IS NOT NULL AND street != '' LIMIT 3000
select_streets(db) == Take(Distinct([i \in 1..Len(db) |-> db[i].street], {}), street_limit)

RECURSIVE Where(_, _)
Where(db, street) ==
  IF Len(db) = 0 THEN <<>>
  ELSE (IF Head(db).street = street THEN <<Head(db)>> ELSE <<>>) \o Where(Tail(db), street)

\* SELECT lat, lon, number FROM addresses WHERE street = ? LIMIT 100
select_buildings(db, street) == Take(Where(db, street), building_limit)

(***************************************************************************)
(* Scores, in units of 1/ScoreScale.                                       *)
(***************************************************************************)
ScoreScale == 200000000

\* 0.98, 0.45 and 0.1 of find_closest_street
landmark_score == 196000000

street_threshold == 90000000

type_bonus == 20000000

\* cos_sim = 0.5 when the vectorizer failed, in units of 1/10000
neutral_cos == 5000

\* 0.99, 0.7 and 0.4 of find_closest_building
exact_score == 198000000

building_threshold == 140000000

fallback_score == 80000000

\* if len(normalized_query) < 4 / if len(normalized_street) < 4
min_length == 4

key_roads == <<
  <<"r","o","d","i","o","n","o","v","a">>,
  <<"k","u","t","u","z","o","v","s","k","i","j">>,
  <<"p","o","b","e","d","y">>,
  <<"g","a","g","a","r","i","n","a">>,
  <<"1","9","0","5"," ","g","o","d","a">> >>

street_type_words == <<
  <<"u","l","i","c","a">>,
  <<"p","r","o","s","p","e","k","t">>,
  <<"b","u","l","q","v","a","r">>,
  <<"n","a","b","e","r","e","zh","n","a","ya">>,
  <<"sh","o","s","s","e">> >>

(***************************************************************************)
(* find_closest_street and find_closest_building: the values they compute. *)
(***************************************************************************)
\* None, as a street match and as a building match
NoStreet == [found |-> FALSE, street |-> <<>>, score |-> 0]

NoBuilding == [found |-> FALSE, lat |-> 0, lon |-> 0, number |-> <<>>, score |-> 0]

\* a test that lets every non-empty text pass
too_short_empty(normalized_query) == Len(normalized_query) < 1

\* if len(normalized_query) < 4: return None
too_short(normalized_query) == Len(normalized_query) < min_length

\* one vectorizer at module level, fitted by every request
vectorizer_module_level(r) == 1

\* vectorizer = TfidfVectorizer(...) is a local of the call: the fit of
\* request r is kept by request r
vectorizer(r) == r

\* the TF-IDF fit of all_texts: the n-gram lists of the documents; the fit
\* fails (ValueError, empty vocabulary) when no document has an n-gram
fit_transform(all_texts) ==
  [fitted |-> \E d \in 1..Len(all_texts) : Len(char_wb(all_texts[d])) > 0,
   docs |-> [d \in 1..Len(all_texts) |-> char_wb(all_texts[d])]]

\* a landmark test that looks at the query only
query_has_key_road(normalized_query, normalized_street) ==
  \E k \in 1..Len(key_roads) : Contains(normalized_query, key_roads[k])

\* the landmark test of one candidate: some key road is in both texts
shares_key_road(normalized_query, normalized_street) ==
  \E k \in 1..Len(key_roads) :
    Contains(normalized_query, key_roads[k]) /\ Contains(normalized_street, key_roads[k])

\* both texts name a street type
both_have_type(normalized_query, normalized_street) ==
  AnyIn(street_type_words, normalized_query) /\ AnyIn(street_type_words, normalized_street)

\* a bonus for each side that names a street type
combined_score_bonus_each(normalized_query, normalized_street, i, tfidf) ==
  2 * (1667 * lev_sim(normalized_query, normalized_street)
       + 5000 * jaro_winkler(normalized_query, normalized_street)
       + 3333 * (IF tfidf.fitted THEN cos_sim(tfidf.docs[1], tfidf.docs[i + 1], tfidf.docs)
                 ELSE neutral_cos))
  + (IF AnyIn(street_type_words, normalized_query) THEN type_bonus ELSE 0)
  + (IF AnyIn(street_type_words, normalized_street) THEN type_bonus ELSE 0)

\* combined_score of candidate number i; tfidf.docs[1] is the query's
\* n-gram list, tfidf.docs[i + 1] the candidate's
combined_score(normalized_query, normalized_street, i, tfidf) ==
  2 * (1667 * lev_sim(normalized_query, normalized_street)
       + 5000 * jaro_winkler(normalized_query, normalized_street)
       + 3333 * (IF tfidf.fitted THEN cos_sim(tfidf.docs[1], tfidf.docs[i + 1], tfidf.docs)
                 ELSE neutral_cos))
  + (IF both_have_type(normalized_query, normalized_street) THEN type_bonus ELSE 0)

\* max(street_scores, key=lambda x: x[1]): the first entry of maximal score
best_of(street_scores) ==
  street_scores[CHOOSE i \in 1..Len(street_scores) :
                  /\ \A j \in 1..Len(street_scores) : street_scores[j].score <= street_scores[i].score
                  /\ \A j \in 1..(i - 1) : street_scores[j].score < street_scores[i].score]

\* a test of the truth of the score, not of its size
street_accepted_nonzero(score) == score # 0

\* if best_street[1] > 0.45
street_accepted(score) == score > street_threshold

\* the weights of the street score, with the neutral cosine
number_score_as_street(query_number, normalized_db_num) ==
  2 * (1667 * lev_sim(query_number, normalized_db_num)
       + 5000 * jaro_winkler(query_number, normalized_db_num)
       + 3333 * neutral_cos)

\* combined_score = 0.6 * lev_sim + 0.4 * jw_sim
number_score(query_number, normalized_db_num) ==
  2 * (6000 * lev_sim(query_number, normalized_db_num)
       + 4000 * jaro_winkler(query_number, normalized_db_num))

\* if query_number == normalized_db_num
exact_number(query_number, normalized_db_num) == query_number = normalized_db_num

\* a threshold that is not strict
building_accepted_at(best_match, best_score) == best_match.found /\ best_score >= building_threshold

\* if best_match and best_score > 0.7
building_accepted(best_match, best_score) == best_match.found /\ best_score > building_threshold

\* the dictionary a building match is returned as
Building(row, score) ==
  [found |-> TRUE, lat |-> row.lat, lon |-> row.lon, number |-> row.number, score |-> score]

\* the last building of the street
last_building(buildings) == Building(buildings[Len(buildings)], fallback_score)

\* "if not found by number, take the first building of the street"
first_building(buildings) == Building(buildings[1], fallback_score)

\* an error that is not caught
error_raised == "raised"

\* where an sqlite3.Error of a SELECT leaves the function: the except clause
\* prints it and returns None ("raised" = the error leaves geocode_address)
after_street_error == "street_done"

after_building_error == "building_done"

\* an object whose street is not filled in
Object_no_street(info, street_match, building_match) ==
  [gorod |-> <<"M","o","s","k","v","a">>,
   ulica |-> <<>>,
   nomer_doma |-> info.nomer_doma,
   nomer_korpusa |-> info.nomer_korpusa,
   stroenie |-> info.stroenie,
   lon |-> building_match.lon,
   lat |-> building_match.lat,
   score |-> (street_match.score + building_match.score) \div 2]

\* an object that takes its house number from the building found
Object_of_building(info, street_match, building_match) ==
  [gorod |-> <<"M","o","s","k","v","a">>,
   ulica |-> street_match.street,
   nomer_doma |-> building_match.number,
   nomer_korpusa |-> info.nomer_korpusa,
   stroenie |-> info.stroenie,
   lon |-> building_match.lon,
   lat |-> building_match.lat,
   score |-> (street_match.score + building_match.score) \div 2]

\* an object whose score is the better of the two scores
Object_best_score(info, street_match, building_match) ==
  [gorod |-> <<"M","o","s","k","v","a">>,
   ulica |-> street_match.street,
   nomer_doma |-> info.nomer_doma,
   nomer_korpusa |-> info.nomer_korpusa,
   stroenie |-> info.stroenie,
   lon |-> building_match.lon,
   lat |-> building_match.lat,
   score |-> Max2(street_match.score, building_match.score)]

\* the object of the result
Object(info, street_match, building_match) ==
  [gorod |-> <<"M","o","s","k","v","a">>,
   ulica |-> street_match.street,
   nomer_doma |-> info.nomer_doma,
   nomer_korpusa |-> info.nomer_korpusa,
   stroenie |-> info.stroenie,
   lon |-> building_match.lon,
   lat |-> building_match.lat,
   score |-> (street_match.score + building_match.score) \div 2]

\* a list that holds the object twice
appended_twice(info, street_match, building_match) ==
  <<Object(info, street_match, building_match), Object(info, street_match, building_match)>>

\* what result["objects"].append(obj) adds to the list
appended(info, street_match, building_match) == <<Object(info, street_match, building_match)>>

(***************************************************************************)
(* Inputs: the queries a request may carry and the rows the address table  *)
(* may hold.                                                               *)
(***************************************************************************)
Addresses == {
  <<"g","."," ","M","o","s","k","v","a",","," ","u","l","."," ","L","e","n","i","n","a",","," ","d","."," ","5",","," ","k","o","r","p","."," ","2">>,   \* г. Москва, ул. Ленина, д. 5, корп. 2
  <<"u","l","i","c","a"," ","G","a","g","a","r","i","n","a"," ","1","0">>,   \* улица Гагарина 10
  <<"5">>,   \* 5
  <<>>,   \* the empty query
  <<"u","l","."," ","L","e","n","i","n","a",","," ","d","."," ","7">>,   \* ул. Ленина, д. 7
  <<"u","l","."," ","L","e","n","i","n","a">>,   \* ул. Ленина
  <<"T","v","e","r","s","k","a","ya"," ","7">>,   \* Тверская 7
  <<"u","l","."," ","L","e","n","i","n","a",","," ","d","."," ","1","2","1","1">> }   \* ул. Ленина, д. 1211

Rows == <<
  [street |-> <<"u","l","i","c","a"," ","l","e","n","i","n","a">>, number |-> <<"5","k","2">>, lat |-> 1, lon |-> 11],   \* улица ленина, 5к2
  [street |-> <<"u","l","i","c","a"," ","l","e","n","i","n","a">>, number |-> <<"7">>, lat |-> 2, lon |-> 12],   \* улица ленина, 7
  [street |-> <<"p","r","o","s","p","e","k","t"," ","G","a","g","a","r","i","n","a">>, number |-> <<"1","0">>, lat |-> 3, lon |-> 13],   \* проспект Гагарина, 10
  [street |-> <<"u","l","i","c","a"," ","l","e","v","i","n","a">>, number |-> <<"5">>, lat |-> 4, lon |-> 14],   \* улица левина, 5
  [street |-> <<"u","l","i","c","a"," ","l","e","n","i","n","a">>, number |-> <<"2","1","1","1","1">>, lat |-> 5, lon |-> 15],   \* улица ленина, 21111
  [street |-> <<"u","l","i","c","a"," ","l","e","n","i","n","a">>, number |-> <<>>, lat |-> 6, lon |-> 16],   \* улица ленина, no number
  [street |-> <<"u","l","i","c","a"," ","l","e","n","i","n","a">>, number |-> <<"1","2","1","2">>, lat |-> 7, lon |-> 17],   \* улица ленина, 1212
  [street |-> <<"u","l","i","c","a"," ","g","a","g","a","r","i","n">>, number |-> <<"1","0">>, lat |-> 8, lon |-> 18] >>   \* улица гагарин, 10

\* the largest number of rows in the table
MaxRows == 2

\* the tables: the sequences of at most MaxRows different rows of Rows
Tables ==
  UNION {{[i \in 1..n |-> Rows[p[i]]] :
            p \in {q \in [1..n -> 1..Len(Rows)] : \A i, j \in 1..n : i # j => q[i] # q[j]}} :
         n \in 0..MaxRows}

\* the requests; the specification Spec serves request 1 and leaves the
\* others idle
NumReq == 2

Req == 1..NumReq

(***************************************************************************)
(* geocode_address as a state machine.  pc[r] is the position of request r *)
(* in geocode_address and in the function it has called; the other         *)
(* variables are the locals of these functions.                            *)
(***************************************************************************)
VARIABLES
  addresses,           \* the address table behind db_path
  full_address,        \* geocode_address: the query
  pc,                  \* the position of the request
  street_name,         \* geocode_address: street_name
  building_info,       \* geocode_address: building_info
  street_match,        \* geocode_address: street_match
  building_match,      \* geocode_address: building_match
  result,              \* geocode_address: result
  selects,             \* the SELECT statements the request has issued, each with its outcome
  normalized_query,    \* find_closest_street: normalized_query
  streets,             \* find_closest_street: streets
  normalized_streets,  \* find_closest_street: normalized_streets
  tfidf,               \* find_closest_street: the fitted TF-IDF matrix
  i,                   \* find_closest_street: the loop index
  street_scores,       \* find_closest_street: street_scores
  buildings,           \* find_closest_building: buildings
  query_number,        \* find_closest_building: query_number
  k,                   \* find_closest_building: the position of the loop
  best_match,          \* find_closest_building: best_match
  best_score,          \* find_closest_building: best_score
  text,                \* a text given to normalize_text or parse_building_components
  tpc,                 \* what has been applied to the text
  normalized,          \* normalize_text(text)
  renormalized,        \* normalize_text(normalize_text(text))
  components,          \* parse_building_components(text)
  request,             \* the arguments: address or query, threshold, max_results
  data,                \* MoscowGeocoder: self.data
  cpc,                 \* the position of the endpoint or of combined_geocoding
  gq,                  \* combined_geocoding: normalized_query
  idx,                 \* combined_geocoding: the row of the loop
  results,             \* combined_geocoding: results
  response             \* what the endpoint or combined_geocoding has returned

vars == <<addresses, full_address, pc, street_name, building_info, street_match, building_match,
          result, selects, normalized_query, streets, normalized_streets, tfidf, i, street_scores,
          buildings, query_number, k, best_match, best_score,
          text, tpc, normalized, renormalized, components,
          request, data, cpc, gq, idx, results, response>>

geo_vars == <<street_name, building_info, street_match, building_match, result>>

street_vars == <<normalized_query, streets, normalized_streets, tfidf, i, street_scores>>

building_vars == <<buildings, query_number, k, best_match, best_score>>

text_vars == <<text, tpc, normalized, renormalized, components>>

cap_vars == <<request, data, cpc, gq, idx, results, response>>

NoInfo ==
  [nomer_doma |-> <<>>, nomer_korpusa |-> <<>>, stroenie |-> <<>>, vladenie |-> <<>>,
   polnyj_nomer_dlya_poiska |-> <<>>, syroj_nomer |-> <<>>]

NoFit == [fitted |-> FALSE, docs |-> <<>>]

\* the locals of a request that has not started
InitLocals ==
  /\ street_name = [r \in Req |-> <<>>]
  /\ building_info = [r \in Req |-> NoInfo]
  /\ street_match = [r \in Req |-> NoStreet]
  /\ building_match = [r \in Req |-> NoBuilding]
  /\ result = [r \in Req |-> [searched_address |-> full_address[r], objects |-> <<>>]]
  /\ selects = [r \in Req |-> <<>>]
  /\ normalized_query = [r \in Req |-> <<>>]
  /\ streets = [r \in Req |-> <<>>]
  /\ normalized_streets = [r \in Req |-> <<>>]
  /\ tfidf = [r \in Req |-> NoFit]
  /\ i = [r \in Req |-> 0]
  /\ street_scores = [r \in Req |-> <<>>]
  /\ buildings = [r \in Req |-> <<>>]
  /\ query_number = [r \in Req |-> <<>>]
  /\ k = [r \in Req |-> 0]
  /\ best_match = [r \in Req |-> NoBuilding]
  /\ best_score = [r \in Req |-> -ScoreScale]

\* no text is given to the text functions on their own
NoText ==
  /\ text = <<>>
  /\ tpc = "off"
  /\ normalized = <<>>
  /\ renormalized = <<>>
  /\ components = NoInfo

\* neither the endpoint nor combined_geocoding is called
NoCall ==
  /\ request = [address |-> <<>>, threshold |-> 0, max_results |-> 1]
  /\ data = <<>>
  /\ cpc = "off"
  /\ gq = <<>>
  /\ idx = 0
  /\ results = <<>>
  /\ response = [searched_address |-> <<>>, objects |-> <<>>]

Init ==
  /\ addresses \in Tables
  /\ \E a \in Addresses : full_address = [r \in Req |-> IF r = 1 THEN a ELSE <<>>]
  /\ pc = [r \in Req |-> IF r = 1 THEN "start" ELSE "idle"]
  /\ InitLocals
  /\ NoText
  /\ NoCall

\* geocode_address: street_name = extract_street_name(full_address)
ExtractStreet(r) ==
  /\ pc[r] = "start"
  /\ street_name' = [street_name EXCEPT ![r] = extract_street_name(full_address[r])]
  /\ pc' = [pc EXCEPT ![r] = "extracted"]
  /\ UNCHANGED <<addresses, full_address, building_info, street_match, building_match, result, selects>>
  /\ UNCHANGED <<text_vars, cap_vars>>
  /\ UNCHANGED <<street_vars, building_vars>>

\* geocode_address: building_info = parse_building_components(full_address)
ParseBuilding(r) ==
  /\ pc[r] = "extracted"
  /\ building_info' = [building_info EXCEPT ![r] = parse_building_components(full_address[r])]
  /\ pc' = [pc EXCEPT ![r] = "parsed"]
  /\ UNCHANGED <<addresses, full_address, street_name, street_match, building_match, result, selects>>
  /\ UNCHANGED <<text_vars, cap_vars>>
  /\ UNCHANGED <<street_vars, building_vars>>

\* find_closest_street, entry: None for an empty or a short query
StreetEnter(r) ==
  /\ pc[r] = "parsed"
  /\ normalized_query' = [normalized_query EXCEPT ![r] = normalize_text(street_name[r])]
  /\ IF Len(street_name[r]) = 0 \/ too_short(normalize_text(street_name[r]))
     THEN /\ street_match' = [street_match EXCEPT ![r] = NoStreet]
          /\ pc' = [pc EXCEPT ![r] = "street_done"]
     ELSE /\ pc' = [pc EXCEPT ![r] = "street_select"]
          /\ UNCHANGED street_match
  /\ UNCHANGED <<addresses, full_address, street_name, building_info, building_match, result, selects>>
  /\ UNCHANGED <<text_vars, cap_vars>>
  /\ UNCHANGED <<streets, normalized_streets, tfidf, i, street_scores, building_vars>>

\* find_closest_street: the SELECT of the streets, which may fail; None if
\* it fails or finds no street
StreetSelect(r) ==
  /\ pc[r] = "street_select"
  /\ \E db_ok \in BOOLEAN :
       /\ selects' = [selects EXCEPT ![r] = Append(@, [stmt |-> "streets", ok |-> db_ok])]
       /\ IF ~db_ok
          THEN /\ street_match' = [street_match EXCEPT ![r] = NoStreet]
               /\ pc' = [pc EXCEPT ![r] = after_street_error]
               /\ UNCHANGED streets
          ELSE /\ streets' = [streets EXCEPT ![r] = select_streets(addresses)]
               /\ IF Len(select_streets(addresses)) = 0
                  THEN /\ street_match' = [street_match EXCEPT ![r] = NoStreet]
                       /\ pc' = [pc EXCEPT ![r] = "street_done"]
                  ELSE /\ pc' = [pc EXCEPT ![r] = "street_fit"]
                       /\ UNCHANGED street_match
  /\ UNCHANGED <<addresses, full_address, street_name, building_info, building_match, result>>
  /\ UNCHANGED <<text_vars, cap_vars>>
  /\ UNCHANGED <<normalized_query, normalized_streets, tfidf, i, street_scores, building_vars>>

\* find_closest_street: normalize the streets and fit the TF-IDF matrix
StreetFit(r) ==
  /\ pc[r] = "street_fit"
  /\ normalized_streets' =
       [normalized_streets EXCEPT ![r] = [n \in 1..Len(streets[r]) |-> normalize_text(streets[r][n])]]
  /\ tfidf' = [tfidf EXCEPT ![vectorizer(r)] =
                 fit_transform(<<normalized_query[r]>>
                               \o [n \in 1..Len(streets[r]) |-> normalize_text(streets[r][n])])]
  /\ i' = [i EXCEPT ![r] = 1]
  /\ street_scores' = [street_scores EXCEPT ![r] = <<>>]
  /\ pc' = [pc EXCEPT ![r] = "street_loop"]
  /\ UNCHANGED <<addresses, full_address, geo_vars, selects, normalized_query, streets, building_vars>>
  /\ UNCHANGED <<text_vars, cap_vars>>

\* find_closest_street: one turn of the loop over the streets
StreetScore(r) ==
  /\ pc[r] = "street_loop"
  /\ i[r] <= Len(streets[r])
  /\ IF Len(normalized_streets[r][i[r]]) < min_length
     THEN /\ i' = [i EXCEPT ![r] = @ + 1]
          /\ UNCHANGED <<street_scores, street_match, pc>>
     ELSE IF shares_key_road(normalized_query[r], normalized_streets[r][i[r]])
     THEN /\ street_match' = [street_match EXCEPT ![r] =
                                [found |-> TRUE, street |-> streets[r][i[r]], score |-> landmark_score]]
          /\ pc' = [pc EXCEPT ![r] = "street_done"]
          /\ UNCHANGED <<i, street_scores>>
     ELSE /\ street_scores' = [street_scores EXCEPT ![r] =
                                 Append(@, [street |-> streets[r][i[r]],
                                            score |-> combined_score(normalized_query[r],
                                                       normalized_streets[r][i[r]], i[r], tfidf[vectorizer(r)])])]
          /\ i' = [i EXCEPT ![r] = @ + 1]
          /\ UNCHANGED <<street_match, pc>>
  /\ UNCHANGED <<addresses, full_address, street_name, building_info, building_match, result, selects>>
  /\ UNCHANGED <<text_vars, cap_vars>>
  /\ UNCHANGED <<normalized_query, streets, normalized_streets, tfidf, building_vars>>

\* find_closest_street: after the loop, the best street if it is good enough
StreetBest(r) ==
  /\ pc[r] = "street_loop"
  /\ i[r] > Len(streets[r])
  /\ street_match' = [street_match EXCEPT ![r] =
       IF Len(street_scores[r]) > 0 /\ street_accepted(best_of(street_scores[r]).score)
       THEN [found |-> TRUE, street |-> best_of(street_scores[r]).street,
             score |-> best_of(street_scores[r]).score]
       ELSE NoStreet]
  /\ pc' = [pc EXCEPT ![r] = "street_done"]
  /\ UNCHANGED <<addresses, full_address, street_name, building_info, building_match, result, selects>>
  /\ UNCHANGED <<text_vars, cap_vars>>
  /\ UNCHANGED <<street_vars, building_vars>>

\* geocode_address: if street_match; find_closest_building: the SELECT of the
\* buildings of the street, which may fail; None if it fails or finds none
BuildingSelect(r) ==
  /\ pc[r] = "street_done"
  /\ street_match[r].found
  /\ IF Len(street_match[r].street) = 0
     THEN /\ building_match' = [building_match EXCEPT ![r] = NoBuilding]
          /\ pc' = [pc EXCEPT ![r] = "building_done"]
          /\ UNCHANGED <<selects, building_vars>>
     ELSE \E db_ok \in BOOLEAN :
            /\ selects' = [selects EXCEPT ![r] = Append(@, [stmt |-> "buildings", ok |-> db_ok])]
            /\ IF ~db_ok
               THEN /\ building_match' = [building_match EXCEPT ![r] = NoBuilding]
                    /\ pc' = [pc EXCEPT ![r] = after_building_error]
                    /\ UNCHANGED building_vars
               ELSE /\ buildings' = [buildings EXCEPT ![r] =
                                       select_buildings(addresses, street_match[r].street)]
                    /\ IF Len(select_buildings(addresses, street_match[r].street)) = 0
                       THEN /\ building_match' = [building_match EXCEPT ![r] = NoBuilding]
                            /\ pc' = [pc EXCEPT ![r] = "building_done"]
                            /\ UNCHANGED <<query_number, k, best_match, best_score>>
                       ELSE IF Len(building_info[r].polnyj_nomer_dlya_poiska) > 0
                       THEN /\ query_number' = [query_number EXCEPT ![r] =
                                  normalize_text(building_info[r].polnyj_nomer_dlya_poiska)]
                            /\ best_match' = [best_match EXCEPT ![r] = NoBuilding]
                            /\ best_score' = [best_score EXCEPT ![r] = -ScoreScale]
                            /\ k' = [k EXCEPT ![r] = 1]
                            /\ pc' = [pc EXCEPT ![r] = "building_loop"]
                            /\ UNCHANGED building_match
                       ELSE /\ pc' = [pc EXCEPT ![r] = "building_first"]
                            /\ UNCHANGED <<building_match, query_number, k, best_match, best_score>>
  /\ UNCHANGED <<addresses, full_address, street_name, building_info, street_match, result, street_vars>>
  /\ UNCHANGED <<text_vars, cap_vars>>

\* find_closest_building: one turn of the loop over the buildings
BuildingScore(r) ==
  /\ pc[r] = "building_loop"
  /\ k[r] <= Len(buildings[r])
  /\ IF Len(buildings[r][k[r]].number) = 0
     THEN /\ k' = [k EXCEPT ![r] = @ + 1]
          /\ UNCHANGED <<best_match, best_score, building_match, pc>>
     ELSE IF exact_number(query_number[r], normalize_text(buildings[r][k[r]].number))
     THEN /\ building_match' = [building_match EXCEPT ![r] = Building(buildings[r][k[r]], exact_score)]
          /\ pc' = [pc EXCEPT ![r] = "building_done"]
          /\ UNCHANGED <<k, best_match, best_score>>
     ELSE /\ IF number_score(query_number[r], normalize_text(buildings[r][k[r]].number)) > best_score[r]
             THEN /\ best_score' = [best_score EXCEPT ![r] =
                        number_score(query_number[r], normalize_text(buildings[r][k[r]].number))]
                  /\ best_match' = [best_match EXCEPT ![r] =
                        Building(buildings[r][k[r]],
                                 number_score(query_number[r], normalize_text(buildings[r][k[r]].number)))]
             ELSE UNCHANGED <<best_match, best_score>>
          /\ k' = [k EXCEPT ![r] = @ + 1]
          /\ UNCHANGED <<building_match, pc>>
  /\ UNCHANGED <<addresses, full_address, street_name, building_info, street_match, result, selects>>
  /\ UNCHANGED <<text_vars, cap_vars>>
  /\ UNCHANGED <<street_vars, buildings, query_number>>

\* find_closest_building: after the loop, the best building if it is good
\* enough
BuildingBest(r) ==
  /\ pc[r] = "building_loop"
  /\ k[r] > Len(buildings[r])
  /\ IF building_accepted(best_match[r], best_score[r])
     THEN /\ building_match' = [building_match EXCEPT ![r] = best_match[r]]
          /\ pc' = [pc EXCEPT ![r] = "building_done"]
     ELSE /\ pc' = [pc EXCEPT ![r] = "building_first"]
          /\ UNCHANGED building_match
  /\ UNCHANGED <<addresses, full_address, street_name, building_info, street_match, result, selects>>
  /\ UNCHANGED <<text_vars, cap_vars>>
  /\ UNCHANGED <<street_vars, building_vars>>

\* find_closest_building: the first building of the street
BuildingFirst(r) ==
  /\ pc[r] = "building_first"
  /\ building_match' = [building_match EXCEPT ![r] = first_building(buildings[r])]
  /\ pc' = [pc EXCEPT ![r] = "building_done"]
  /\ UNCHANGED <<addresses, full_address, street_name, building_info, street_match, result, selects>>
  /\ UNCHANGED <<text_vars, cap_vars>>
  /\ UNCHANGED <<street_vars, building_vars>>

\* geocode_address: if building_match: result["objects"].append(obj);
\* return result
Assemble(r) ==
  /\ pc[r] = "building_done"
  /\ building_match[r].found
  /\ result' = [result EXCEPT ![r].objects =
                  @ \o appended(building_info[r], street_match[r], building_match[r])]
  /\ pc' = [pc EXCEPT ![r] = "returned"]
  /\ UNCHANGED <<addresses, full_address, street_name, building_info, street_match, building_match, selects>>
  /\ UNCHANGED <<text_vars, cap_vars>>
  /\ UNCHANGED <<street_vars, building_vars>>

\* geocode_address: return result with no object, as no street or no
\* building was matched
ReturnEmpty(r) ==
  /\ \/ pc[r] = "street_done" /\ ~street_match[r].found
     \/ pc[r] = "building_done" /\ ~building_match[r].found
  /\ pc' = [pc EXCEPT ![r] = "returned"]
  /\ UNCHANGED <<addresses, full_address, geo_vars, selects, street_vars, building_vars>>
  /\ UNCHANGED <<text_vars, cap_vars>>

\* the table is a file that every SELECT opens anew with
\* sqlite3.connect(db_path): between two SELECTs of a request another
\* program may have removed a row from it
DeleteRow ==
  /\ \E n \in 1..Len(addresses) :
       addresses' = SubSeq(addresses, 1, n - 1) \o SubSeq(addresses, n + 1, Len(addresses))
  /\ UNCHANGED <<full_address, pc, geo_vars, selects, street_vars, building_vars>>
  /\ UNCHANGED <<text_vars, cap_vars>>

Next ==
  \/ DeleteRow
  \/ \E r \in Req :
      \/ ExtractStreet(r)
      \/ ParseBuilding(r)
      \/ StreetEnter(r)
      \/ StreetSelect(r)
      \/ StreetFit(r)
      \/ StreetScore(r)
      \/ StreetBest(r)
      \/ BuildingSelect(r)
      \/ BuildingScore(r)
      \/ BuildingBest(r)
      \/ BuildingFirst(r)
      \/ Assemble(r)
      \/ ReturnEmpty(r)

Spec == Init /\ [][Next]_vars

(***************************************************************************)
(* Two requests served at the same time: the API runs geocode_address for  *)
(* each request, and the steps of the two calls interleave.  The table is  *)
(* only read.                                                              *)
(***************************************************************************)
\* the two concurrent requests
ConcReq == {1, 2}

\* the queries of the concurrent requests
ConcAddresses == {
  <<"u","l","."," ","L","e","n","i","n","a",","," ","d","."," ","7">>,   \* ул. Ленина, д. 7
  <<"u","l","i","c","a"," ","G","a","g","a","r","i","n","a"," ","1","0">>,   \* улица Гагарина 10
  <<"u","l","."," ","L","e","n","i","n","a",","," ","d","."," ","1","2","1","1">>,   \* ул. Ленина, д. 1211
  <<"u","l","."," ","L","e","n","i","n","a">> }   \* ул. Ленина

\* the tables of the concurrent requests
ConcTables == {
  <<Rows[1], Rows[2]>>,
  <<Rows[4], Rows[7]>>,
  <<Rows[8], Rows[3]>>,
  <<>> }

InitConc ==
  /\ addresses \in ConcTables
  /\ \E a, b \in ConcAddresses :
       full_address = [r \in Req |-> IF r = 1 THEN a ELSE IF r = 2 THEN b ELSE <<>>]
  /\ pc = [r \in Req |-> IF r \in ConcReq THEN "start" ELSE "idle"]
  /\ InitLocals
  /\ NoText
  /\ NoCall

NextConc ==
  \E r \in Req :
    \/ ExtractStreet(r)
    \/ ParseBuilding(r)
    \/ StreetEnter(r)
    \/ StreetSelect(r)
    \/ StreetFit(r)
    \/ StreetScore(r)
    \/ StreetBest(r)
    \/ BuildingSelect(r)
    \/ BuildingScore(r)
    \/ BuildingBest(r)
    \/ BuildingFirst(r)
    \/ Assemble(r)
    \/ ReturnEmpty(r)

ConcSpec == InitConc /\ [][NextConc]_vars

(***************************************************************************)
(* The text functions on their own: normalize_text, applied to a text and  *)
(* to its own result, and parse_building_components.                       *)
(***************************************************************************)
\* the characters of the short texts: a letter, a capital letter, a digit,
\* a space, a hyphen, a comma and an underscore
Alphabet == {"a", "B", "5", " ", "-", ",", "_"}

\* the greatest length of a short text
MaxLen == 4

ShortTexts == UNION {[1..n -> Alphabet] : n \in 0..MaxLen}

\* addresses with and without a corpus, a structure, an ownership, a house
\* marker and a city:
\*   ул. Ленина, д. 5, корп. 2
\*   ул. Ленина, д. 5, стр. 3
\*   ул. Ленина, д. 5, корп. 2, стр. 3
\*   ул. Ленина, вл. 3
\*   Ленина 5 стр
\*   г. Москва, ул. Ленина, д. 5, корп. 2
\*   Тверская 7
\*   ул. Ленина, д. 7
ParsedAddresses == {
  <<"u","l","."," ","L","e","n","i","n","a",","," ","d","."," ","5",","," ","k","o","r","p","."," ","2">>,
  <<"u","l","."," ","L","e","n","i","n","a",","," ","d","."," ","5",","," ","s","t","r","."," ","3">>,
  <<"u","l","."," ","L","e","n","i","n","a",","," ","d","."," ","5",","," ","k","o","r","p","."," ","2",","," ","s","t","r","."," ","3">>,
  <<"u","l","."," ","L","e","n","i","n","a",","," ","v","l","."," ","3">>,
  <<"L","e","n","i","n","a"," ","5"," ","s","t","r">>,
  <<"g","."," ","M","o","s","k","v","a",","," ","u","l","."," ","L","e","n","i","n","a",","," ","d","."," ","5",","," ","k","o","r","p","."," ","2">>,
  <<"T","v","e","r","s","k","a","ya"," ","7">>,
  <<"u","l","."," ","L","e","n","i","n","a",","," ","d","."," ","7">> }

Texts == ShortTexts \cup ParsedAddresses

InitText ==
  /\ addresses = <<>>
  /\ full_address = [r \in Req |-> <<>>]
  /\ pc = [r \in Req |-> "idle"]
  /\ InitLocals
  /\ text \in Texts
  /\ tpc = "text"
  /\ normalized = <<>>
  /\ renormalized = <<>>
  /\ components = NoInfo
  /\ NoCall

\* normalize_text(text)
Normalize ==
  /\ tpc = "text"
  /\ normalized' = normalize_text(text)
  /\ tpc' = "normalized"
  /\ UNCHANGED <<addresses, full_address, pc, geo_vars, selects, street_vars, building_vars>>
  /\ UNCHANGED <<text, renormalized, components>>
  /\ UNCHANGED cap_vars

\* normalize_text applied to its own result
Renormalize ==
  /\ tpc = "normalized"
  /\ renormalized' = normalize_text(normalized)
  /\ tpc' = "renormalized"
  /\ UNCHANGED <<addresses, full_address, pc, geo_vars, selects, street_vars, building_vars>>
  /\ UNCHANGED <<text, normalized, components>>
  /\ UNCHANGED cap_vars

\* parse_building_components(text)
Parse ==
  /\ tpc = "renormalized"
  /\ components' = parse_building_components(text)
  /\ tpc' = "parsed"
  /\ UNCHANGED <<addresses, full_address, pc, geo_vars, selects, street_vars, building_vars>>
  /\ UNCHANGED <<text, normalized, renormalized>>
  /\ UNCHANGED cap_vars

NextText == Normalize \/ Renormalize \/ Parse

TextSpec == InitText /\ [][NextText]_vars

(***************************************************************************)
(* The calls that take a threshold and a cap on the number of results:     *)
(* MoscowGeocoder.combined_geocoding(query, threshold, max_results) and    *)
(* the endpoint /api/geocode, whose request carries address, threshold and *)
(* max_results and which calls geocode_address.                            *)
(***************************************************************************)
\* self.abbreviations: the pairs of an abbreviation and its full form, in
\* the order of the dict
abbreviations == <<
  <<<<"r","e","s","p">>, <<"r","e","s","p","u","b","l","i","k","a">>>>,
  <<<<"r","e","s","p",".">>, <<"r","e","s","p","u","b","l","i","k","a">>>>,
  <<<<"k","r","a","j">>, <<"k","r","a","j">>>>,
  <<<<"o","b","l">>, <<"o","b","l","a","s","t","q">>>>,
  <<<<"o","b","l",".">>, <<"o","b","l","a","s","t","q">>>>,
  <<<<"g",".","f",".","z">>, <<"g","o","r","o","d"," ","f","e","d","e","r","a","l","q","n","o","g","o"," ","z","n","a","ch","e","n","i","ya">>>>,
  <<<<"g",".","f",".","z",".">>, <<"g","o","r","o","d"," ","f","e","d","e","r","a","l","q","n","o","g","o"," ","z","n","a","ch","e","n","i","ya">>>>,
  <<<<"a",".","o","b","l">>, <<"a","v","t","o","n","o","m","n","a","ya"," ","o","b","l","a","s","t","q">>>>,
  <<<<"a",".","o","b","l",".">>, <<"a","v","t","o","n","o","m","n","a","ya"," ","o","b","l","a","s","t","q">>>>,
  <<<<"a",".","o","k","r">>, <<"a","v","t","o","n","o","m","n","y","j"," ","o","k","r","u","g">>>>,
  <<<<"a",".","o","k","r",".">>, <<"a","v","t","o","n","o","m","n","y","j"," ","o","k","r","u","g">>>>,
  <<<<"m",".","r","-","n">>, <<"m","u","n","i","c","i","p","a","l","q","n","y","j"," ","r","a","j","o","n">>>>,
  <<<<"g",".","o",".">>, <<"g","o","r","o","d","s","k","o","j"," ","o","k","r","u","g">>>>,
  <<<<"g",".","p",".">>, <<"g","o","r","o","d","s","k","o","e"," ","p","o","s","e","l","e","n","i","e">>>>,
  <<<<"s",".","p",".">>, <<"s","e","l","q","s","k","o","e"," ","p","o","s","e","l","e","n","i","e">>>>,
  <<<<"v","n",".","r","-","n">>, <<"v","n","u","t","r","i","g","o","r","o","d","s","k","o","j"," ","r","a","j","o","n">>>>,
  <<<<"v","n",".","t","e","r",".","g",".">>, <<"v","n","u","t","r","i","g","o","r","o","d","s","k","a","ya"," ","t","e","r","r","i","t","o","r","i","ya"," ","g","o","r","o","d","a"," ","f","e","d","e","r","a","l","q","n","o","g","o"," ","z","n","a","ch","e","n","i","ya">>>>,
  <<<<"p","o","s">>, <<"p","o","s","e","l","e","n","i","e">>>>,
  <<<<"p","o","s",".">>, <<"p","o","s","e","l","e","n","i","e">>>>,
  <<<<"r","-","n">>, <<"r","a","j","o","n">>>>,
  <<<<"s","/","s">>, <<"s","e","l","q","s","o","v","e","t">>>>,
  <<<<"g">>, <<"g","o","r","o","d">>>>,
  <<<<"g",".">>, <<"g","o","r","o","d">>>>,
  <<<<"p","g","t">>, <<"p","o","s","e","l","o","k"," ","g","o","r","o","d","s","k","o","g","o"," ","t","i","p","a">>>>,
  <<<<"p","g","t",".">>, <<"p","o","s","e","l","o","k"," ","g","o","r","o","d","s","k","o","g","o"," ","t","i","p","a">>>>,
  <<<<"r","p">>, <<"r","a","b","o","ch","i","j"," ","p","o","s","e","l","o","k">>>>,
  <<<<"r","p",".">>, <<"r","a","b","o","ch","i","j"," ","p","o","s","e","l","o","k">>>>,
  <<<<"k","p">>, <<"k","u","r","o","r","t","n","y","j"," ","p","o","s","e","l","o","k">>>>,
  <<<<"k","p",".">>, <<"k","u","r","o","r","t","n","y","j"," ","p","o","s","e","l","o","k">>>>,
  <<<<"g","p">>, <<"g","o","r","o","d","s","k","o","j"," ","p","o","s","e","l","o","k">>>>,
  <<<<"g","p",".">>, <<"g","o","r","o","d","s","k","o","j"," ","p","o","s","e","l","o","k">>>>,
  <<<<"p">>, <<"p","o","s","e","l","o","k">>>>,
  <<<<"p",".">>, <<"p","o","s","e","l","o","k">>>>,
  <<<<"d">>, <<"d","o","m">>>>,
  <<<<"d",".">>, <<"d","o","m">>>>,
  <<<<"s">>, <<"s","e","l","o">>>>,
  <<<<"s",".">>, <<"s","e","l","o">>>>,
  <<<<"s","l">>, <<"s","l","o","b","o","d","a">>>>,
  <<<<"s","l",".">>, <<"s","l","o","b","o","d","a">>>>,
  <<<<"s","t">>, <<"s","t","a","n","c","i","ya">>>>,
  <<<<"s","t",".">>, <<"s","t","a","n","c","i","ya">>>>,
  <<<<"s","t","-","c","a">>, <<"s","t","a","n","i","c","a">>>>,
  <<<<"u">>, <<"u","l","u","s">>>>,
  <<<<"u",".">>, <<"u","l","u","s">>>>,
  <<<<"h">>, <<"h","u","t","o","r">>>>,
  <<<<"h",".">>, <<"h","u","t","o","r">>>>,
  <<<<"r","z","d">>, <<"r","a","z","qq","e","z","d">>>>,
  <<<<"r","z","d",".">>, <<"r","a","z","qq","e","z","d">>>>,
  <<<<"z","i","m">>, <<"z","i","m","o","v","q","e">>>>,
  <<<<"z","i","m",".">>, <<"z","i","m","o","v","q","e">>>>,
  <<<<"m","-","k","o">>, <<"m","e","s","t","e","ch","k","o">>>>,
  <<<<"m","-","k","o",".">>, <<"m","e","s","t","e","ch","k","o">>>>,
  <<<<"u","l">>, <<"u","l","i","c","a">>>>,
  <<<<"u","l",".">>, <<"u","l","i","c","a">>>>,
  <<<<"a","l">>, <<"a","l","l","e","ya">>>>,
  <<<<"a","l",".">>, <<"a","l","l","e","ya">>>>,
  <<<<"b","-","r">>, <<"b","u","l","q","v","a","r">>>>,
  <<<<"n","a","b">>, <<"n","a","b","e","r","e","zh","n","a","ya">>>>,
  <<<<"n","a","b",".">>, <<"n","a","b","e","r","e","zh","n","a","ya">>>>,
  <<<<"p","e","r">>, <<"p","e","r","e","u","l","o","k">>>>,
  <<<<"p","e","r",".">>, <<"p","e","r","e","u","l","o","k">>>>,
  <<<<"p","l">>, <<"p","l","o","sch","a","d","q">>>>,
  <<<<"p","l",".">>, <<"p","l","o","sch","a","d","q">>>>,
  <<<<"p","r","-","d">>, <<"p","r","o","e","z","d">>>>,
  <<<<"p","r","-","k","t">>, <<"p","r","o","s","p","e","k","t">>>>,
  <<<<"p","r","-","k","t",".">>, <<"p","r","o","s","p","e","k","t">>>>,
  <<<<"t","u","p">>, <<"t","u","p","i","k">>>>,
  <<<<"t","u","p",".">>, <<"t","u","p","i","k">>>>,
  <<<<"sh">>, <<"sh","o","s","s","e">>>>,
  <<<<"sh",".">>, <<"sh","o","s","s","e">>>>,
  <<<<"k","o","r","p">>, <<"k","o","r","p","u","s">>>>,
  <<<<"k","o","r","p",".">>, <<"k","o","r","p","u","s">>>>,
  <<<<"s","t","r">>, <<"s","t","r","o","e","n","i","e">>>>,
  <<<<"s","t","r",".">>, <<"s","t","r","o","e","n","i","e">>>>,
  <<<<"v","l","d">>, <<"v","l","a","d","e","n","i","e">>>>,
  <<<<"v","l","d",".">>, <<"v","l","a","d","e","n","i","e">>>>,
  <<<<"z","d">>, <<"z","d","a","n","i","e">>>>,
  <<<<"z","d",".">>, <<"z","d","a","n","i","e">>>>,
  <<<<"k","v">>, <<"k","v","a","r","t","i","r","a">>>>,
  <<<<"k","v",".">>, <<"k","v","a","r","t","i","r","a">>>>,
  <<<<"o","f","i","s">>, <<"o","f","i","s">>>> >>

\* whether re.escape(abbr) is at position p of t with no \w before and
\* none after it
abbr_at(abbr, t, p) ==
  /\ p + Len(abbr) - 1 <= Len(t)
  /\ SubSeq(t, p, p + Len(abbr) - 1) = abbr
  /\ ~IsWordAt(t, p - 1)
  /\ ~IsWordAt(t, p + Len(abbr))

RECURSIVE replace_abbr(_, _, _, _)
\* re.sub(r'(?<!\w)' + re.escape(abbr) + r'(?!\w)', full, text), from
\* position pos on: the leftmost match is replaced and the search goes on
\* behind it
replace_abbr(abbr, full, t, pos) ==
  LET starts == {p \in pos..Len(t) : abbr_at(abbr, t, p)}
      first == CHOOSE p \in starts : \A q \in starts : p <= q
  IN  IF starts = {} THEN SubSeq(t, pos, Len(t))
      ELSE SubSeq(t, pos, first - 1) \o full \o replace_abbr(abbr, full, t, first + Len(abbr))

RECURSIVE expand(_, _)
\* for abbr, full in self.abbreviations.items(), from entry n on
expand(t, n) ==
  IF n > Len(abbreviations) THEN t
  ELSE LET replaced == replace_abbr(abbreviations[n][1], abbreviations[n][2], t, 1)
       IN  IF Len(replaced) = 0 THEN <<>> ELSE expand(replaced, n + 1)

normalize_address(t) ==
  IF Len(Strip(t)) = 0 THEN <<>>
  ELSE LET t1 == Sub(NotIn(Word \cup Space \cup {"-", "."}), <<" ">>, Lower(t))
           t2 == Strip(Sub(Plus(In(Space)), <<" ">>, t1))
       IN  Strip(Sub(Plus(In(Space)), <<" ">>, expand(t2, 1)))

\* the float nan: what 1 - cos_dist is when a vector is all zeros
NaN == -1

\* the values a similarity of two different texts may have, in 1/10000: the
\* value is fixed by the library (rapidfuzz, scikit-learn), not by this
\* program, and is any of these
Similarities == {0, 5000, 9500}

\* _jaro_winkler_similarity: 0.0 if a text is empty, else fuzz.WRatio /
\* 100.0, which is 1 for equal texts
jaro_winkler_similarity(str1, str2) ==
  IF Len(str1) = 0 \/ Len(str2) = 0 THEN {0}
  ELSE IF str1 = str2 THEN {10000}
  ELSE Similarities

\* _cosine_similarity: 0.0 if a text is empty or the vectorizer raises,
\* else 1 - cosine distance of the two TF-IDF vectors, which is 1 for equal
\* texts of the fitted names and nan if a vector has no n-gram of the
\* vocabulary
cosine_similarity(str1, str2) ==
  IF Len(str1) = 0 \/ Len(str2) = 0 THEN {0}
  ELSE IF str1 = str2 THEN {10000}
  ELSE Similarities \cup {NaN}

\* final_score, in units of 1/ScoreScale
final_score(lev_similarity, jw_similarity, cos_similarity) ==
  IF cos_similarity = NaN THEN NaN
  ELSE 2 * (1667 * lev_similarity + 5000 * jw_similarity + 3333 * cos_similarity)

\* if final_score >= threshold
reaches_threshold(score, threshold) == score # NaN /\ score >= threshold

RECURSIVE sorted_desc(_)
\* results.sort(key=lambda x: x['score'], reverse=True): stable, equal
\* scores keep their order
sorted_desc(rs) ==
  IF Len(rs) = 0 THEN <<>>
  ELSE LET rest == sorted_desc(SubSeq(rs, 1, Len(rs) - 1))
           x == rs[Len(rs)]
           ahead == Cardinality({n \in 1..Len(rest) : rest[n].score >= x.score})
       IN  SubSeq(rest, 1, ahead) \o <<x>> \o SubSeq(rest, ahead + 1, Len(rest))

\* a cap that is clamped to 1
sliced_to_one(rs, max_results) == SubSeq(rs, 1, Min2(1, Len(rs)))

\* results[:max_results]
sliced(rs, max_results) ==
  IF max_results >= 0 THEN SubSeq(rs, 1, Min2(max_results, Len(rs)))
  ELSE SubSeq(rs, 1, Max2(Len(rs) + max_results, 0))

\* "if len(result["objects"]) > 1 and request.max_results == 1"
limited(objects, max_results) ==
  IF Len(objects) > 1 /\ max_results = 1 THEN <<objects[1]>> ELSE objects

\* _preprocess_data: self.data of the frame df, whose x is the latitude
\* and y the longitude
preprocess(df) ==
  [n \in 1..Len(df) |->
     [Name |-> df[n].Name, normalized_name |-> normalize_address(df[n].Name),
      lon |-> df[n].y, lat |-> df[n].x]]

\* the values of max_results
Caps == {-1, 0, 1, 2, 3}

\* the values of threshold, in units of 1/ScoreScale: 0, 0.6, 1.5
Thresholds == {0, 120000000, 300000000}

\* the queries of combined_geocoding
Queries == {
  <<"u","l","."," ","L","e","n","i","n","a",","," ","d","."," ","5">>,   \* ул. Ленина, д. 5
  <<"T","v","e","r","s","k","a","ya"," ","7">>,   \* Тверская 7
  <<>> }   \* the empty query

\* the frames of objects the geocoder is built on
Frames == {
  <<[Name |-> <<"u","l","."," ","L","e","n","i","n","a",","," ","d","."," ","5">>, x |-> 1, y |-> 11],
    [Name |-> <<"u","l","."," ","L","e","n","i","n","a",","," ","d","."," ","5">>, x |-> 2, y |-> 12]>>,
  <<[Name |-> <<"u","l","."," ","L","e","n","i","n","a",","," ","d","."," ","5">>, x |-> 1, y |-> 11],
    [Name |-> <<"T","v","e","r","s","k","a","ya"," ","7">>, x |-> 2, y |-> 12],
    [Name |-> <<"u","l","."," ","L","e","n","i","n","a",","," ","d","."," ","5">>, x |-> 3, y |-> 13]>>,
  <<[Name |-> <<"u","l","i","c","a"," ","L","e","n","i","n","a",","," ","d","o","m"," ","5">>, x |-> 1, y |-> 11],
    [Name |-> <<" ", ",", " ">>, x |-> 2, y |-> 12],
    [Name |-> <<"T","v","e","r","s","k","a","ya"," ","7">>, x |-> 3, y |-> 13]>>,
  <<>> }

\* either combined_geocoding is called on a geocoder built on a frame, or
\* a request has reached the endpoint
InitCap ==
  /\ pc = [r \in Req |-> "idle"]
  /\ gq = <<>>
  /\ idx = 0
  /\ results = <<>>
  /\ response = [searched_address |-> <<>>, objects |-> <<>>]
  /\ \E t \in Thresholds, m \in Caps :
       \/ /\ cpc = "called"
          /\ \E q \in Queries : request = [address |-> q, threshold |-> t, max_results |-> m]
          /\ data \in {preprocess(df) : df \in Frames}
          /\ addresses = <<>>
          /\ full_address = [r \in Req |-> <<>>]
       \/ /\ cpc = "request"
          /\ \E a \in ConcAddresses :
               /\ request = [address |-> a, threshold |-> t, max_results |-> m]
               /\ full_address = [r \in Req |-> IF r = 1 THEN a ELSE <<>>]
          /\ data = <<>>
          /\ addresses \in ConcTables
  /\ InitLocals
  /\ NoText

\* combined_geocoding: normalized_query = self.normalize_address(query)
CombinedEnter ==
  /\ cpc = "called"
  /\ gq' = normalize_address(request.address)
  /\ results' = <<>>
  /\ idx' = 1
  /\ cpc' = "rows"
  /\ UNCHANGED <<request, data, response>>
  /\ UNCHANGED <<addresses, full_address, pc, geo_vars, selects, street_vars, building_vars, text_vars>>

\* combined_geocoding: one turn of the loop over self.data
CombinedRow ==
  /\ cpc = "rows"
  /\ idx <= Len(data)
  /\ IF Len(Strip(data[idx].normalized_name)) = 0
     THEN UNCHANGED results
     ELSE \E jw \in jaro_winkler_similarity(gq, data[idx].normalized_name),
             cs \in cosine_similarity(gq, data[idx].normalized_name) :
            LET lev == lev_sim(gq, data[idx].normalized_name)
                score == final_score(lev, jw, cs)
            IN  results' =
                  IF reaches_threshold(score, request.threshold)
                  THEN Append(results,
                              [Name |-> data[idx].Name, lon |-> data[idx].lon, lat |-> data[idx].lat,
                               score |-> score,
                               metrics |-> [levenshtein |-> lev, jaro_winkler |-> jw, cosine |-> cs]])
                  ELSE results
  /\ idx' = idx + 1
  /\ UNCHANGED <<request, data, cpc, gq, response>>
  /\ UNCHANGED <<addresses, full_address, pc, geo_vars, selects, street_vars, building_vars, text_vars>>

\* combined_geocoding: results.sort(...)
CombinedSort ==
  /\ cpc = "rows"
  /\ idx > Len(data)
  /\ results' = sorted_desc(results)
  /\ cpc' = "sorted"
  /\ UNCHANGED <<request, data, gq, idx, response>>
  /\ UNCHANGED <<addresses, full_address, pc, geo_vars, selects, street_vars, building_vars, text_vars>>

\* combined_geocoding: results = results[:max_results]; return
CombinedReturn ==
  /\ cpc = "sorted"
  /\ results' = sliced(results, request.max_results)
  /\ response' = [searched_address |-> request.address,
                  objects |-> sliced(results, request.max_results)]
  /\ cpc' = "returned"
  /\ UNCHANGED <<request, data, gq, idx>>
  /\ UNCHANGED <<addresses, full_address, pc, geo_vars, selects, street_vars, building_vars, text_vars>>

\* geocode: HTTP 500 if the database file does not exist, else
\* geocode_address(request.address, db_path=DB_PATH) is called
EndpointCall ==
  /\ cpc = "request"
  /\ \E exists \in BOOLEAN :
       IF exists
       THEN /\ cpc' = "geocoding"
            /\ pc' = [pc EXCEPT ![1] = "start"]
       ELSE /\ cpc' = "http_500"
            /\ UNCHANGED pc
  /\ UNCHANGED <<request, data, gq, idx, results, response>>
  /\ UNCHANGED <<addresses, full_address, geo_vars, selects, street_vars, building_vars, text_vars>>

\* geocode: the answer once geocode_address has returned
EndpointReturn ==
  /\ cpc = "geocoding"
  /\ pc[1] = "returned"
  /\ response' =
       IF Len(result[1].objects) = 0
       THEN [searched_address |-> request.address, objects |-> <<>>]
       ELSE [result[1] EXCEPT !.objects = limited(@, request.max_results)]
  /\ cpc' = "responded"
  /\ UNCHANGED <<request, data, gq, idx, results>>
  /\ UNCHANGED <<addresses, full_address, pc, geo_vars, selects, street_vars, building_vars, text_vars>>

NextCap ==
  \/ CombinedEnter
  \/ CombinedRow
  \/ CombinedSort
  \/ CombinedReturn
  \/ EndpointCall
  \/ EndpointReturn
  \/ \E r \in Req :
      \/ ExtractStreet(r)
      \/ ParseBuilding(r)
      \/ StreetEnter(r)
      \/ StreetSelect(r)
      \/ StreetFit(r)
      \/ StreetScore(r)
      \/ StreetBest(r)
      \/ BuildingSelect(r)
      \/ BuildingScore(r)
      \/ BuildingBest(r)
      \/ BuildingFirst(r)
      \/ Assemble(r)
      \/ ReturnEmpty(r)

CapSpec == InitCap /\ [][NextCap]_vars

(***************************************************************************)
(* Properties.                                                             *)
(***************************************************************************)
\* the positions after find_closest_street has returned
AfterStreet == {"street_done", "building_loop", "building_first", "building_done", "returned"}

\* the positions after find_closest_building has returned
AfterBuilding == {"building_done", "returned"}

\* request r has issued the SELECT stmt and, if any is true, it failed
Failed(r, stmt) == \E n \in 1..Len(selects[r]) : selects[r][n].stmt = stmt /\ ~selects[r][n].ok

\* C1: whatever the query and the table, and whether or not the table
\* answers, the objects list of the result holds no object or one object.
C1_ZeroOrOneObject == \A r \in Req : Len(result[r].objects) \in {0, 1}

\* a request has returned a result with one object
C1_Witness == \E r \in Req : pc[r] = "returned" /\ Len(result[r].objects) = 1

C3_FailureIsNoMatch ==
  \A r \in Req :
    /\ pc[r] # "raised"
    /\ Failed(r, "streets") => pc[r] \in {"street_done", "returned"} /\ ~street_match[r].found
    /\ Failed(r, "buildings") => pc[r] \in {"building_done", "returned"} /\ ~building_match[r].found
    /\ (Failed(r, "streets") \/ Failed(r, "buildings")) => result[r].objects = <<>>

\* a request whose street was matched and whose SELECT of the buildings
\* failed has returned
C3_Witness ==
  \E r \in Req :
    pc[r] = "returned" /\ Failed(r, "buildings") /\ street_match[r].found /\ result[r].objects = <<>>

\* C4: when the extracted street name is empty or its normalized form has
\* fewer than 4 characters, the request never issues a SELECT, neither of
\* the streets nor of the buildings, and its result has no object.
C4_ShortQueryNeverQueries ==
  \A r \in Req :
    (pc[r] \notin {"idle", "start"} /\ Len(normalize_text(street_name[r])) < 4)
      => /\ selects[r] = <<>>
         /\ result[r].objects = <<>>
         /\ pc[r] \in {"extracted", "parsed", "street_done", "returned"}

\* the bare house number "5" has returned
C4_Witness ==
  \E r \in Req : pc[r] = "returned" /\ street_name[r] = <<"5">> /\ selects[r] = <<>>

\* the normalized street of the query of request r
QueryStreet(r) == normalize_text(street_name[r])

\* street number n of the streets request r has retrieved and normalized is
\* a landmark candidate: one key road is in the normalized query and in the
\* normalized street
Landmark(r, n) ==
  \E m \in 1..Len(key_roads) :
    /\ Contains(normalized_query[r], key_roads[m])
    /\ Contains(normalized_streets[r][n], key_roads[m])

\* C5 as the specification states it: when no street of the table equals
\* the street of the query, normalized, the result has no object.
C5_AbsentStreetNoObject ==
  \A r \in Req :
    (pc[r] = "returned" /\ \A n \in 1..Len(streets[r]) : normalize_text(streets[r][n]) # QueryStreet(r))
      => result[r].objects = <<>>

\* C5, amended: when none of the retrieved streets is a landmark candidate
\* and none has a composite score greater than 0.45, the street stage has no
\* match, the buildings are never retrieved, the result has no object and no
\* error leaves geocode_address.
C5_NoCandidateNoObject ==
  \A r \in Req :
    /\ pc[r] # "raised"
    /\ (/\ pc[r] \in AfterStreet
        /\ i[r] > Len(streets[r])
        /\ \A n \in 1..Len(street_scores[r]) : street_scores[r][n].score <= street_threshold)
         => /\ ~street_match[r].found
            /\ ~(\E n \in 1..Len(selects[r]) : selects[r][n].stmt = "buildings")
            /\ result[r].objects = <<>>
            /\ pc[r] \in {"street_done", "returned"}

\* the street "tverskaya" was scored against the streets of a table that has
\* no such street, none was good enough, and the request has returned
C5_Witness ==
  \E r \in Req :
    /\ pc[r] = "returned"
    /\ Len(street_scores[r]) > 0
    /\ \A n \in 1..Len(street_scores[r]) : street_scores[r][n].score <= street_threshold
    /\ result[r].objects = <<>>

\* request r has retrieved the buildings of its street
BuildingsRetrieved(r) ==
  \E n \in 1..Len(selects[r]) : selects[r][n].stmt = "buildings" /\ selects[r][n].ok

\* the search key of request r, normalized
QueryNumber(r) == normalize_text(building_info[r].polnyj_nomer_dlya_poiska)

\* the buildings request r has retrieved whose number is the search key
ExactBuildings(r) ==
  {n \in 1..Len(buildings[r]) :
     Len(buildings[r][n].number) > 0 /\ normalize_text(buildings[r][n].number) = QueryNumber(r)}

\* 0.6 * edit similarity + 0.4 * affix similarity of the search key of
\* request r and the number of building n
EditAffix(r, n) ==
  2 * (6000 * lev_sim(QueryNumber(r), normalize_text(buildings[r][n].number))
       + 4000 * jaro_winkler(QueryNumber(r), normalize_text(buildings[r][n].number)))

\* the buildings request r has retrieved that have a number
Numbered(r) == {n \in 1..Len(buildings[r]) : Len(buildings[r][n].number) > 0}

\* C6: once find_closest_building has returned for an accepted street whose
\* buildings were retrieved: with no search key, or with no building whose
\* number equals the key or scores above 0.70, the match is the first
\* retrieved building with the score 0.40; with no building retrieved there
\* is no match and the result has no object.
C6_FallbackFirstBuilding ==
  \A r \in Req :
    (pc[r] \in AfterBuilding /\ BuildingsRetrieved(r))
      => /\ Len(buildings[r]) = 0 => ~building_match[r].found /\ result[r].objects = <<>>
         /\ (/\ Len(buildings[r]) > 0
             /\ \/ Len(building_info[r].polnyj_nomer_dlya_poiska) = 0
                \/ /\ ExactBuildings(r) = {}
                   /\ \A n \in Numbered(r) : EditAffix(r, n) <= building_threshold)
              => /\ building_match[r] =
                      [found |-> TRUE, lat |-> buildings[r][1].lat, lon |-> buildings[r][1].lon,
                       number |-> buildings[r][1].number, score |-> fallback_score]
                 /\ pc[r] = "returned"
                      => /\ Len(result[r].objects) = 1
                         /\ result[r].objects[1].lat = buildings[r][1].lat
                         /\ result[r].objects[1].lon = buildings[r][1].lon

\* two buildings were retrieved, the key matched neither well enough, and
\* the object has the coordinates of the first one
C6_Witness ==
  \E r \in Req :
    /\ pc[r] = "returned"
    /\ Len(buildings[r]) = 2
    /\ Len(building_info[r].polnyj_nomer_dlya_poiska) > 0
    /\ best_match[r].found
    /\ building_match[r].score = fallback_score
    /\ Len(result[r].objects) = 1
    /\ result[r].objects[1].lat = buildings[r][1].lat
    /\ buildings[r][1].lat # buildings[r][2].lat

\* the street was accepted, all its rows had gone when the buildings were
\* retrieved, and the request has returned no object
C6_NoBuildings ==
  \E r \in Req :
    /\ pc[r] = "returned"
    /\ street_match[r].found
    /\ BuildingsRetrieved(r)
    /\ Len(buildings[r]) = 0
    /\ result[r].objects = <<>>

\* the query of the example: г. Москва, ул. Ленина, д. 5, корп. 2
ExampleQuery ==
  <<"g","."," ","M","o","s","k","v","a",","," ","u","l","."," ","L","e","n","i","n","a",",",
    " ","d","."," ","5",","," ","k","o","r","p","."," ","2">>

\* the table of the example: the street "улица ленина" with the building 5к2
ExampleTable ==
  <<[street |-> <<"u","l","i","c","a"," ","l","e","n","i","n","a">>, number |-> <<"5","k","2">>,
     lat |-> 1, lon |-> 11]>>

\* C7: the query "г. Москва, ул. Ленина, д. 5, корп. 2", answered from a
\* table that holds the street "улица ленина" with the building "5к2" and
\* whose SELECTs succeed, returns one object with the house number "5", the
\* corpus number "2", no structure and a score greater than 0.8.
C7_Example ==
  \A r \in Req :
    (/\ pc[r] = "returned"
     /\ full_address[r] = ExampleQuery
     /\ addresses = ExampleTable
     /\ Len(selects[r]) = 2
     /\ \A n \in 1..Len(selects[r]) : selects[r][n].ok)
      => /\ Len(result[r].objects) = 1
         /\ result[r].objects[1].nomer_doma = <<"5">>
         /\ result[r].objects[1].nomer_korpusa = <<"2">>
         /\ result[r].objects[1].stroenie = <<>>
         /\ 10 * result[r].objects[1].score > 8 * ScoreScale

\* the landmark candidates among the streets request r has retrieved
Landmarks(r) == {n \in 1..Len(normalized_streets[r]) : Landmark(r, n)}

\* C8: once find_closest_street has returned with streets retrieved: if the
\* query and one of the streets both contain a key road, the match is the
\* first such street with the score 0.98, whatever the metrics of the
\* streets; and the fixed score is for that street only: every street
\* scored before it has its own composite score, and a returned street that
\* is no landmark candidate carries the composite score it was given.
C8_LandmarkShortCircuit ==
  \A r \in Req :
    (pc[r] \in AfterStreet /\ Len(streets[r]) > 0)
      => /\ normalized_query[r] = QueryStreet(r)
         /\ Len(normalized_streets[r]) = Len(streets[r])
         /\ Landmarks(r) # {}
              => /\ street_match[r].found
                 /\ street_match[r].score = landmark_score
                 /\ \E n \in Landmarks(r) :
                      /\ street_match[r].street = streets[r][n]
                      /\ \A m \in Landmarks(r) : n <= m
         /\ \A n \in 1..Len(street_scores[r]) :
              \E m \in 1..Len(streets[r]) :
                /\ streets[r][m] = street_scores[r][n].street
                /\ ~Landmark(r, m)
         /\ (Landmarks(r) = {} /\ street_match[r].found)
              => \E n \in 1..Len(street_scores[r]) :
                   /\ street_scores[r][n].street = street_match[r].street
                   /\ street_scores[r][n].score = street_match[r].score

\* "улица Гагарина 10" was matched with the second street retrieved,
\* "проспект Гагарина", at 0.98, after the first street was scored
C8_Witness ==
  \E r \in Req :
    /\ pc[r] = "returned"
    /\ Len(streets[r]) = 2
    /\ Landmarks(r) = {2}
    /\ Len(street_scores[r]) = 1
    /\ street_match[r].score = landmark_score
    /\ street_match[r].street = streets[r][2]

\* C9: once find_closest_building has returned for a request with a search
\* key and buildings retrieved: if the number of a building equals the key,
\* both normalized, the match is such a building with the score 0.99;
\* otherwise the best score is the greatest of 0.6 * edit similarity + 0.4 *
\* affix similarity over the buildings that have a number, the best match
\* carries that score, and a match other than the fallback is the best match.
C9_ExactOrEditAffix ==
  \A r \in Req :
    (/\ pc[r] \in AfterBuilding
     /\ BuildingsRetrieved(r)
     /\ Len(buildings[r]) > 0
     /\ Len(building_info[r].polnyj_nomer_dlya_poiska) > 0)
      => IF ExactBuildings(r) # {}
         THEN /\ building_match[r].found
              /\ building_match[r].score = exact_score
              /\ \E n \in ExactBuildings(r) :
                   /\ building_match[r].lat = buildings[r][n].lat
                   /\ building_match[r].lon = buildings[r][n].lon
                   /\ building_match[r].number = buildings[r][n].number
         ELSE /\ \A n \in Numbered(r) : EditAffix(r, n) <= best_score[r]
              /\ Numbered(r) # {}
                   => /\ \E n \in Numbered(r) :
                           /\ EditAffix(r, n) = best_score[r]
                           /\ best_match[r] =
                                [found |-> TRUE, lat |-> buildings[r][n].lat,
                                 lon |-> buildings[r][n].lon, number |-> buildings[r][n].number,
                                 score |-> EditAffix(r, n)]
              /\ building_match[r].found
              /\ building_match[r].score # fallback_score => building_match[r] = best_match[r]

\* the key "7" did not equal the first building's number, which got its
\* edit and affix score, and equalled the second's, which was returned at
\* 0.99
C9_Witness ==
  \E r \in Req :
    /\ pc[r] = "returned"
    /\ Len(buildings[r]) = 2
    /\ ExactBuildings(r) = {2}
    /\ best_match[r].found
    /\ best_score[r] = EditAffix(r, 1)
    /\ building_match[r].score = exact_score
    /\ result[r].objects[1].lat = buildings[r][2].lat

\* the key "1211" equalled no number, and the building "1212" was taken with
\* its edit and affix score of more than 0.70
C9_Scored ==
  \E r \in Req :
    /\ pc[r] = "returned"
    /\ ExactBuildings(r) = {}
    /\ best_score[r] > building_threshold
    /\ building_match[r] = best_match[r]

\* C10 as the specification states it: every composite score of a street,
\* and the score of the street match, is in [0, 1].
C10_ScoreInUnitInterval ==
  \A r \in Req :
    /\ \A n \in 1..Len(street_scores[r]) :
         street_scores[r][n].score >= 0 /\ street_scores[r][n].score <= ScoreScale
    /\ street_match[r].found => street_match[r].score >= 0 /\ street_match[r].score <= ScoreScale

\* C10, amended: every composite score of a street, and the score of the
\* street match, is in [0, 1.1], and it is greater than 1 only where the
\* query and the street both name a street type, which adds 0.1 to a score
\* that is not clamped.
C10_ScoreInBonusInterval ==
  \A r \in Req :
    /\ \A n \in 1..Len(street_scores[r]) :
         /\ street_scores[r][n].score >= 0
         /\ street_scores[r][n].score <= ScoreScale + type_bonus
         /\ street_scores[r][n].score > ScoreScale
              => /\ AnyIn(street_type_words, QueryStreet(r))
                 /\ AnyIn(street_type_words, normalize_text(street_scores[r][n].street))
    /\ street_match[r].found
         => /\ street_match[r].score >= 0
            /\ street_match[r].score <= ScoreScale + type_bonus

\* a street equal to the query's, both with a street type, was returned with
\* a score greater than 1
C10_Witness ==
  \E r \in Req :
    /\ pc[r] = "returned"
    /\ street_match[r].found
    /\ street_match[r].score > ScoreScale
    /\ Len(result[r].objects) = 1

\* C11: every object of a result has a street that is not empty: it is one
\* of the streets retrieved, whose normalized name has 4 characters or more.
C11_StreetNonEmpty ==
  \A r \in Req :
    \A n \in 1..Len(result[r].objects) :
      /\ Len(result[r].objects[n].ulica) > 0
      /\ \E m \in 1..Len(streets[r]) :
           /\ result[r].objects[n].ulica = streets[r][m]
           /\ Len(normalized_streets[r][m]) >= min_length

\* an object was returned whose street is the second of two streets
\* retrieved
C11_Witness ==
  \E r \in Req :
    /\ pc[r] = "returned"
    /\ Len(result[r].objects) = 1
    /\ Len(streets[r]) = 2
    /\ result[r].objects[1].ulica = streets[r][2]

\* the text without its spaces
Unspaced(t) == SelectSeq(t, LAMBDA c : c # " ")

\* marker and number, if there is a number
Marked(marker, number) == IF Len(number) > 0 THEN marker \o number ELSE <<>>

\* C12 as the specification states it: the search key is the house number,
\* then "к" and the corpus number if there is one, then "с" and the
\* structure number if there is one, and nothing else.
C12_KeyOfThreeFields ==
  tpc = "parsed"
    => components.polnyj_nomer_dlya_poiska =
         components.nomer_doma \o Marked(<<"k">>, components.nomer_korpusa)
           \o Marked(<<"s">>, components.stroenie)

\* C12, amended: the search key is the house number, then "к" and the corpus
\* number, then "с" and the structure number, then "вл" and the ownership
\* number, each if there is one and with nothing between them; if all four
\* are empty and there is a raw number, the key is the raw number without
\* its spaces.
C12_KeyOfFourFieldsOrRaw ==
  tpc = "parsed"
    => LET four == components.nomer_doma \o Marked(<<"k">>, components.nomer_korpusa)
                     \o Marked(<<"s">>, components.stroenie)
                     \o Marked(<<"v","l">>, components.vladenie)
       IN  components.polnyj_nomer_dlya_poiska =
             IF Len(four) > 0 THEN four ELSE Unspaced(components.syroj_nomer)

\* an address with a house, a corpus and a structure was parsed
C12_Witness ==
  /\ tpc = "parsed"
  /\ Len(components.nomer_doma) > 0
  /\ Len(components.nomer_korpusa) > 0
  /\ Len(components.stroenie) > 0
  /\ Len(components.polnyj_nomer_dlya_poiska) =
       Len(components.nomer_doma) + Len(components.nomer_korpusa) + Len(components.stroenie) + 2

\* an address with an ownership was parsed
C12_Ownership == tpc = "parsed" /\ Len(components.vladenie) > 0

\* an address with a raw number that has a space, and no other field, was
\* parsed
C12_RawNumber ==
  /\ tpc = "parsed"
  /\ Len(components.nomer_doma) = 0
  /\ Len(components.syroj_nomer) > Len(components.polnyj_nomer_dlya_poiska)
  /\ Len(components.polnyj_nomer_dlya_poiska) > 0

\* C13: normalize_text applied to its own result gives that result again.
C13_NormalizeIdempotent ==
  tpc \in {"renormalized", "parsed"} => renormalized = normalized

\* a text that normalize_text changes was normalized twice
C13_Witness ==
  /\ tpc = "renormalized"
  /\ Len(normalized) > 1
  /\ Len(normalized) < Len(text)
  /\ normalized # Lower(text)

\* the letters
Letters ==
  {LowerLetters[n] : n \in 1..Len(LowerLetters)} \cup {UpperLetters[n] : n \in 1..Len(UpperLetters)}

\* C14: the result of normalize_text has no two spaces in a row, no space at
\* its start or its end, and no character that is not a letter, a digit, a
\* space or a hyphen.
C14_NormalizedCharacters ==
  tpc \in {"normalized", "renormalized", "parsed"}
    => /\ \A n \in 1..(Len(normalized) - 1) : ~(normalized[n] = " " /\ normalized[n + 1] = " ")
       /\ Len(normalized) > 0 => normalized[1] # " " /\ normalized[Len(normalized)] # " "
       /\ \A n \in 1..Len(normalized) : normalized[n] \in Letters \cup Digit \cup {" ", "-"}

\* the city in front of an address: "г. Москва, "
CityPrefix == <<"g","."," ","M","o","s","k","v","a",","," ">>

\* C18: the corpus and the structure number come from the raw house-number
\* token only: the same address behind the city "г. Москва, ", with the same
\* raw number, has the same corpus number and the same structure number.
C18_CityNeverContributes ==
  tpc = "parsed"
    => LET with_city == parse_building_components(CityPrefix \o text)
       IN  with_city.syroj_nomer = components.syroj_nomer
             => /\ with_city.nomer_korpusa = components.nomer_korpusa
                /\ with_city.stroenie = components.stroenie

\* C16: the score of a returned object is the arithmetic mean of the score
\* of the street match and the score of the building match (in the units
\* of ScoreScale, halves dropped).
C16_ScoreIsMean ==
  \A r \in Req :
    \A n \in 1..Len(result[r].objects) :
      /\ street_match[r].found
      /\ building_match[r].found
      /\ 2 * result[r].objects[n].score <= street_match[r].score + building_match[r].score
      /\ street_match[r].score + building_match[r].score < 2 * result[r].objects[n].score + 2

\* an object was returned whose street and building scores differ, so
\* the mean lies strictly between them
C16_Witness ==
  \E r \in Req :
    /\ pc[r] = "returned"
    /\ Len(result[r].objects) = 1
    /\ building_match[r].score < result[r].objects[1].score
    /\ result[r].objects[1].score < street_match[r].score

\* C20: the house, corpus and structure of a returned object are the
\* values parsed from the query, and its latitude and longitude are those
\* of the building selected, a building retrieved for the street; this
\* holds in the fallback case too, where the building's number is not the
\* number of the query.
C20_ParsedFieldsBuildingCoordinates ==
  \A r \in Req :
    \A n \in 1..Len(result[r].objects) :
      /\ building_info[r] = parse_building_components(full_address[r])
      /\ result[r].objects[n].nomer_doma = building_info[r].nomer_doma
      /\ result[r].objects[n].nomer_korpusa = building_info[r].nomer_korpusa
      /\ result[r].objects[n].stroenie = building_info[r].stroenie
      /\ building_match[r].found
      /\ result[r].objects[n].lat = building_match[r].lat
      /\ result[r].objects[n].lon = building_match[r].lon
      /\ \E m \in 1..Len(buildings[r]) :
           /\ buildings[r][m].lat = building_match[r].lat
           /\ buildings[r][m].lon = building_match[r].lon
           /\ buildings[r][m].number = building_match[r].number

\* an object was returned by the fallback: the selected building's number
\* is not the house number of the query, and the object has the query's
\* house number and the building's coordinates
C20_Witness ==
  \E r \in Req :
    /\ pc[r] = "returned"
    /\ Len(result[r].objects) = 1
    /\ building_match[r].score = fallback_score
    /\ Len(building_info[r].nomer_doma) > 0
    /\ Len(building_match[r].number) > 0
    /\ building_match[r].number # building_info[r].nomer_doma
    /\ result[r].objects[1].nomer_doma = building_info[r].nomer_doma
    /\ result[r].objects[1].lat = buildings[r][1].lat

\* the score the scoring rules give candidate n of request r: 0.98 to a
\* landmark candidate, the composite score over the fitted batch to any
\* other
RuleScore(r, n) ==
  IF Landmark(r, n) THEN landmark_score
  ELSE combined_score(normalized_query[r], normalized_streets[r][n], n, tfidf[r])

\* C17: the street find_closest_street returns is the maximum-scoring
\* candidate: no eligible candidate of the retrieved batch has a strictly
\* higher score under the scoring rules than the returned one.
C17_MaximumScoringStreet ==
  \A r \in Req :
    (pc[r] \in AfterStreet /\ street_match[r].found)
      => \A n \in 1..Len(normalized_streets[r]) :
           Len(normalized_streets[r][n]) >= min_length
             => RuleScore(r, n) <= street_match[r].score

\* the least number of a non-empty set of numbers
Least(S) == CHOOSE n \in S : \A m \in S : n <= m

\* find_closest_street run on its own, from its call to its return, over
\* the table db; ok says whether its SELECT succeeds
street_alone(street_query, db, ok) ==
  LET nq == normalize_text(street_query)
      sts == select_streets(db)
      ns == [n \in 1..Len(sts) |-> normalize_text(sts[n])]
      fit == fit_transform(<<nq>> \o ns)
      eligible == {n \in 1..Len(sts) : Len(ns[n]) >= min_length}
      landmarks == {n \in eligible : shares_key_road(nq, ns[n])}
      scored == IF landmarks = {} THEN eligible ELSE {n \in eligible : n < Least(landmarks)}
      scores == [n \in scored |-> combined_score(nq, ns[n], n, fit)]
      best == CHOOSE n \in scored :
                /\ \A m \in scored : scores[m] <= scores[n]
                /\ \A m \in scored : m < n => scores[m] < scores[n]
  IN  IF Len(street_query) = 0 \/ too_short(nq) \/ ~ok \/ Len(sts) = 0 THEN NoStreet
      ELSE IF landmarks # {}
      THEN [found |-> TRUE, street |-> sts[Least(landmarks)], score |-> landmark_score]
      ELSE IF scored # {} /\ street_accepted(scores[best])
      THEN [found |-> TRUE, street |-> sts[best], score |-> scores[best]]
      ELSE NoStreet

\* find_closest_building run on its own, from its call to its return,
\* over the table db; ok says whether its SELECT succeeds
building_alone(street, info, db, ok) ==
  LET bs == select_buildings(db, street)
      qn == normalize_text(info.polnyj_nomer_dlya_poiska)
      numbered == {n \in 1..Len(bs) : Len(bs[n].number) > 0}
      exact == {n \in numbered : exact_number(qn, normalize_text(bs[n].number))}
      scores == [n \in numbered |-> number_score(qn, normalize_text(bs[n].number))]
      best == CHOOSE n \in numbered :
                /\ \A m \in numbered : scores[m] <= scores[n]
                /\ \A m \in numbered : m < n => scores[m] < scores[n]
  IN  IF Len(street) = 0 \/ ~ok \/ Len(bs) = 0 THEN NoBuilding
      ELSE IF Len(info.polnyj_nomer_dlya_poiska) = 0 THEN first_building(bs)
      ELSE IF exact # {} THEN Building(bs[Least(exact)], exact_score)
      ELSE IF numbered # {} /\ building_accepted(Building(bs[best], scores[best]), scores[best])
      THEN Building(bs[best], scores[best])
      ELSE first_building(bs)

\* geocode_address run on its own over the table db; oks says whether its
\* SELECTs succeed
geocode_alone(query, db, oks) ==
  LET info == parse_building_components(query)
      sm == street_alone(extract_street_name(query), db, oks.streets)
      bm == IF sm.found THEN building_alone(sm.street, info, db, oks.buildings) ELSE NoBuilding
  IN  [searched_address |-> query,
       objects |-> IF sm.found /\ bm.found THEN appended(info, sm, bm) ELSE <<>>]

\* whether the SELECTs of request r succeeded
Outcomes(r) == [streets |-> ~Failed(r, "streets"), buildings |-> ~Failed(r, "buildings")]

\* C19: two geocode_address calls whose steps interleave share no mutable
\* state: the table is only read, the TF-IDF fit is a local of each call,
\* and however the steps interleave each request returns the result that
\* geocode_address gives for its query and the table when run on its own.
C19_ResultAsAlone ==
  /\ addresses \in ConcTables
  /\ \A r \in ConcReq :
       pc[r] = "returned"
         => result[r] = geocode_alone(full_address[r], addresses, Outcomes(r))

\* both requests have fitted and scored streets for different queries over
\* the same table, each keeps its own fit, and both have returned an object
C19_Witness ==
  /\ pc[1] = "returned" /\ pc[2] = "returned"
  /\ full_address[1] # full_address[2]
  /\ tfidf[1].fitted /\ tfidf[2].fitted
  /\ tfidf[1] # tfidf[2]
  /\ Len(street_scores[1]) > 0 /\ Len(street_scores[2]) > 0
  /\ Len(result[1].objects) = 1 /\ Len(result[2].objects) = 1

C15_EndpointWitness ==
  /\ cpc = "responded"
  /\ request.max_results = 3
  /\ Len(response.objects) = 1

\* combined_geocoding was called with the cap -1 and has returned two of
\* three rows
C15_NegativeCap ==
  /\ cpc = "returned"
  /\ request.max_results = -1
  /\ Len(response.objects) = 2
====
